---------------------------- MODULE Spec2Model ----------------------------
(***************************************************************************)
(* Model of kubectl-rbac-why's permission resolution engine                *)
(* (pkg/rbac: matcher and resolver) over an RBAC data source               *)
(* (pkg/client: RBACClient, MockRBACClient).                               *)
(*                                                                         *)
(* Strings are TLC strings; Go slices are sequences; Go structs are        *)
(* records that keep the field names of the source.                        *)
(***************************************************************************)
EXTENDS Integers, Sequences, FiniteSets, TLC

(***************************************************************************)
(* Bounds of the model.                                                    *)
(***************************************************************************)
\* Number of bindings (ClusterRoleBindings plus RoleBindings) a snapshot holds.
MaxBindings == 3

(***************************************************************************)
(* rbacv1 wildcards and the scope tags of types.go.                        *)
(***************************************************************************)
VerbAll == "*"
APIGroupAll == "*"
ResourceAll == "*"
ScopeNamespace == "namespace"
ScopeClusterWide == "cluster-wide"

(***************************************************************************)
(* pkg/rbac/matcher.go : the rule matcher.  A loop with an early           *)
(* "return true" over a slice is an existential over its positions.        *)
(***************************************************************************)
\* Faulty variant of matchesVerb: "*" is compared like any other verb.
matchesVerbVerbatim(ruleVerbs, requestVerb) ==
    \E k \in 1..Len(ruleVerbs) : ruleVerbs[k] = requestVerb

matchesVerb(ruleVerbs, requestVerb) ==
    \E k \in 1..Len(ruleVerbs) :
        ruleVerbs[k] = VerbAll \/ ruleVerbs[k] = requestVerb

\* Faulty variant of matchesAPIGroup: an empty entry stands for every group.
matchesAPIGroupEmptyIsAll(ruleGroups, requestGroup) ==
    \E k \in 1..Len(ruleGroups) :
        \/ ruleGroups[k] = APIGroupAll
        \/ ruleGroups[k] = ""
        \/ ruleGroups[k] = requestGroup

matchesAPIGroup(ruleGroups, requestGroup) ==
    \E k \in 1..Len(ruleGroups) :
        ruleGroups[k] = APIGroupAll \/ ruleGroups[k] = requestGroup

\* Faulty variant of matchesResource: an entry naming the base resource
\* covers its subresources too.
matchesResourceBaseCoversSubresources(ruleResources, requestResource, requestSubresource) ==
    LET fullResource == IF requestSubresource # ""
                        THEN requestResource \o "/" \o requestSubresource
                        ELSE requestResource
    IN  \E k \in 1..Len(ruleResources) :
            LET r == ruleResources[k]
            IN  \/ r = ResourceAll
                \/ r = fullResource
                \/ (requestSubresource # "" /\ r = requestResource \o "/*")
                \/ r = requestResource

matchesResource(ruleResources, requestResource, requestSubresource) ==
    LET fullResource == IF requestSubresource # ""
                        THEN requestResource \o "/" \o requestSubresource
                        ELSE requestResource
    IN  \E k \in 1..Len(ruleResources) :
            LET r == ruleResources[k]
            IN  \/ r = ResourceAll
                \/ r = fullResource
                \/ (requestSubresource # "" /\ r = requestResource \o "/*")
                \/ (requestSubresource = "" /\ r = requestResource)

matchesResourceName(ruleNames, requestName) ==
    \E k \in 1..Len(ruleNames) : ruleNames[k] = requestName

\* Faulty variant of RuleMatches: a rule that declares names requires the
\* request to name one of them.
RuleMatchesNameRequired(rule, request) ==
    /\ matchesVerb(rule.Verbs, request.Verb)
    /\ matchesAPIGroup(rule.APIGroups, request.APIGroup)
    /\ matchesResource(rule.Resources, request.Resource, request.Subresource)
    /\ (Len(rule.ResourceNames) > 0) =>
          matchesResourceName(rule.ResourceNames, request.ResourceName)

RuleMatches(rule, request) ==
    IF ~matchesVerb(rule.Verbs, request.Verb) THEN FALSE
    ELSE IF ~matchesAPIGroup(rule.APIGroups, request.APIGroup) THEN FALSE
    ELSE IF ~matchesResource(rule.Resources, request.Resource, request.Subresource)
         THEN FALSE
    ELSE IF /\ Len(rule.ResourceNames) > 0
            /\ request.ResourceName # ""
            /\ ~matchesResourceName(rule.ResourceNames, request.ResourceName)
         THEN FALSE
    ELSE TRUE

(***************************************************************************)
(* pkg/rbac/matcher.go : subject matching and implicit groups.             *)
(***************************************************************************)
\* Faulty variant of SubjectMatches: the namespace is compared for every kind.
SubjectMatchesNamespaceAlways(bindingSubject, requestSubject) ==
    /\ bindingSubject.Kind = requestSubject.Kind
    /\ bindingSubject.Name = requestSubject.Name
    /\ bindingSubject.Namespace = requestSubject.Namespace

SubjectMatches(bindingSubject, requestSubject) ==
    IF bindingSubject.Kind # requestSubject.Kind THEN FALSE
    ELSE IF bindingSubject.Name # requestSubject.Name THEN FALSE
    ELSE IF /\ requestSubject.Kind = "ServiceAccount"
            /\ bindingSubject.Namespace # requestSubject.Namespace
         THEN FALSE
    ELSE TRUE

\* Faulty variant of SubjectMatchesWithGroups: an entry of any kind matches
\* when its name is one of the groups.
SubjectMatchesWithGroupsAnyKind(bindingSubject, requestSubject, groups) ==
    \/ SubjectMatches(bindingSubject, requestSubject)
    \/ \E k \in 1..Len(groups) : bindingSubject.Name = groups[k]

SubjectMatchesWithGroups(bindingSubject, requestSubject, groups) ==
    IF SubjectMatches(bindingSubject, requestSubject) THEN TRUE
    ELSE IF bindingSubject.Kind = "Group"
         THEN \E k \in 1..Len(groups) : bindingSubject.Name = groups[k]
    ELSE FALSE

\* Faulty variant of GetImplicitGroups: the namespace group comes before
\* system:serviceaccounts.
GetImplicitGroupsNamespaceFirst(subject) ==
    IF subject.Kind = "ServiceAccount"
    THEN <<"system:authenticated",
           "system:serviceaccounts:" \o subject.Namespace,
           "system:serviceaccounts">>
    ELSE <<"system:authenticated">>

GetImplicitGroups(subject) ==
    LET groups == <<"system:authenticated">>
    IN  IF subject.Kind = "ServiceAccount"
        THEN groups \o <<"system:serviceaccounts",
                         "system:serviceaccounts:" \o subject.Namespace>>
        ELSE groups

\* Faulty variant of bindingMatchesSubject: the groups are not looked at.
bindingMatchesSubjectDirectly(subjects, subject, groups) ==
    \E k \in 1..Len(subjects) : SubjectMatches(subjects[k], subject)

\* Resolver.bindingMatchesSubject
bindingMatchesSubject(subjects, subject, groups) ==
    \E k \in 1..Len(subjects) :
        SubjectMatchesWithGroups(subjects[k], subject, groups)

(***************************************************************************)
(* Fixtures: the universe the snapshots, subjects and requests are drawn   *)
(* from (shaped after the fixtures of resolver_test.go).                   *)
(***************************************************************************)
Rule(verbs, resources) ==
    [Verbs |-> verbs, APIGroups |-> <<"">>, Resources |-> resources,
     ResourceNames |-> <<>>]

Entry(kind, name, namespace) ==
    [Kind |-> kind, Name |-> name, Namespace |-> namespace]

\* ClusterRoles of the snapshot.  "view" has matching rules at positions
\* that are not adjacent; "shared" has the name of a Role of "default".
FixtureClusterRoles ==
    << [Name |-> "view", Namespace |-> "",
        Rules |-> << Rule(<<"get", "list">>, <<"pods">>),
                     Rule(<<"get">>, <<"secrets">>),
                     Rule(<<"*">>, <<"pods", "services">>) >>],
       [Name |-> "shared", Namespace |-> "",
        Rules |-> << Rule(<<"get">>, <<"pods">>) >>] >>

\* Roles of the snapshot, by namespace.  "reader" holds the same rule twice;
\* "kubeonly" exists in namespace "kube" alone.
FixtureRoles ==
    [ns \in {"default", "kube"} |->
        IF ns = "default"
        THEN << [Name |-> "reader", Namespace |-> "default",
                 Rules |-> << Rule(<<"get">>, <<"pods">>),
                              Rule(<<"get">>, <<"pods">>) >>],
                [Name |-> "shared", Namespace |-> "default",
                 Rules |-> << Rule(<<"delete">>, <<"pods">>) >>] >>
        ELSE << [Name |-> "kubeonly", Namespace |-> "kube",
                 Rules |-> << Rule(<<"get">>, <<"pods">>) >>] >>]

\* ClusterRoleBindings that AddClusterRoleBinding may add (Name is set on add).
ClusterRoleBindingPool ==
    { [Name |-> "", Namespace |-> "",
       Subjects |-> << Entry("ServiceAccount", "sa1", "default") >>,
       RoleRef |-> [Kind |-> "ClusterRole", Name |-> "view"]],
      [Name |-> "", Namespace |-> "",
       Subjects |-> << Entry("ServiceAccount", "sa1", "default"),
                       Entry("Group", "system:serviceaccounts", "") >>,
       RoleRef |-> [Kind |-> "ClusterRole", Name |-> "shared"]],
      [Name |-> "", Namespace |-> "",
       Subjects |-> << Entry("Group", "system:serviceaccounts:default", "") >>,
       RoleRef |-> [Kind |-> "ClusterRole", Name |-> "gone"]],
      [Name |-> "", Namespace |-> "",
       Subjects |-> << Entry("User", "jane", "") >>,
       RoleRef |-> [Kind |-> "ClusterRole", Name |-> "view"]],
      [Name |-> "", Namespace |-> "",
       Subjects |-> << Entry("Group", "devs", "") >>,
       RoleRef |-> [Kind |-> "ClusterRole", Name |-> "view"]] }

\* RoleBindings that AddRoleBinding may add (Name is set on add).
RoleBindingPool ==
    { [Name |-> "", Namespace |-> "default",
       Subjects |-> << Entry("ServiceAccount", "sa1", "default") >>,
       RoleRef |-> [Kind |-> "Role", Name |-> "reader"]],
      [Name |-> "", Namespace |-> "default",
       Subjects |-> << Entry("Group", "system:serviceaccounts:default", "") >>,
       RoleRef |-> [Kind |-> "ClusterRole", Name |-> "view"]],
      [Name |-> "", Namespace |-> "default",
       Subjects |-> << Entry("ServiceAccount", "sa1", "default"),
                       Entry("Group", "system:serviceaccounts", "") >>,
       RoleRef |-> [Kind |-> "Role", Name |-> "shared"]],
      [Name |-> "", Namespace |-> "default",
       Subjects |-> << Entry("User", "jane", "") >>,
       RoleRef |-> [Kind |-> "Role", Name |-> "kubeonly"]],
      [Name |-> "", Namespace |-> "kube",
       Subjects |-> << Entry("Group", "system:serviceaccounts", "") >>,
       RoleRef |-> [Kind |-> "Role", Name |-> "kubeonly"]] }

\* Subjects a caller asks about.
Subjects ==
    { [Kind |-> "ServiceAccount", Name |-> "sa1", Namespace |-> "default",
       Groups |-> <<>>],
      [Kind |-> "ServiceAccount", Name |-> "sa1", Namespace |-> "kube",
       Groups |-> <<>>],
      [Kind |-> "User", Name |-> "jane", Namespace |-> "",
       Groups |-> <<"devs">>] }

\* Namespace arguments: "" is the cluster-scoped query.
QueryNamespaces == {"", "default", "kube"}

\* Requests a caller makes.
Requests ==
    { [Verb |-> v, APIGroup |-> "", Resource |-> "pods", Subresource |-> "",
       ResourceName |-> "", Namespace |-> ns] :
        v \in {"get", "delete"}, ns \in QueryNamespaces }

(***************************************************************************)
(* State.                                                                  *)
(***************************************************************************)
VARIABLES
    client,    \* the data source: MockRBACClient's four collections
    op,        \* the resolver entry point in progress ("": none)
    pc,        \* position of the call in progress ("idle": none)
    subject,   \* the call's subject argument
    request,   \* the call's request (ResolveAllPermissions: its namespace)
    groups,    \* the call's local: GetImplicitGroups(subject)
    items,     \* the call's local: Items of the binding list last returned
    i,         \* the call's local: position of the range loop in items
    result,    \* the call's PermissionResult (ResolveAllPermissions: grants)
    ret,       \* what the call returned: a result, or a hard error
    calls,     \* the data-source operations the call has issued, in order
    mIn,       \* matcher harness: the arguments drawn
    mOut,      \* matcher harness: the function applied and what it returned
    last,      \* what the caller kept of the call before this one
    parked     \* the call of the other goroutine, which is not running now

callVars == <<op, pc, subject, request, groups, items, i, result, ret, calls>>
matchVars == <<mIn, mOut>>
vars ==
    <<client, op, pc, subject, request, groups, items, i, result, ret, calls,
      mIn, mOut, last, parked>>

(***************************************************************************)
(* pkg/client : the data source.  A read answers [ok, val]; ok = FALSE is  *)
(* the error return (NotFound from the lookup, or the failure of the call  *)
(* itself, which every operation of RBACClient can report).                *)
(***************************************************************************)
Failed == [ok |-> FALSE, val |-> <<>>]

ListClusterRoleBindings(c) == [ok |-> TRUE, val |-> c.ClusterRoleBindings]

ListRoleBindings(c, namespace) ==
    IF namespace \in DOMAIN c.RoleBindings
    THEN [ok |-> TRUE, val |-> c.RoleBindings[namespace]]
    ELSE [ok |-> TRUE, val |-> <<>>]

\* The first item of a list with the name asked for, as the lookup loops find it.
FirstNamed(list, name) ==
    LET at == {k \in 1..Len(list) : list[k].Name = name}
    IN  IF at = {} THEN Failed
        ELSE [ok |-> TRUE,
              val |-> list[CHOOSE k \in at : \A j \in at : k <= j]]

\* Faulty variant of GetRole: a Role of that name in any namespace will do.
GetRoleAnyNamespace(c, namespace, name) ==
    LET found == {ns \in DOMAIN c.Roles : FirstNamed(c.Roles[ns], name).ok}
    IN  IF found = {} THEN Failed
        ELSE IF namespace \in found THEN FirstNamed(c.Roles[namespace], name)
        ELSE FirstNamed(c.Roles[CHOOSE ns \in found : TRUE], name)

GetRole(c, namespace, name) ==
    IF namespace \in DOMAIN c.Roles
    THEN FirstNamed(c.Roles[namespace], name)
    ELSE Failed

GetClusterRole(c, name) == FirstNamed(c.ClusterRoles, name)

\* One entry of the log of data-source operations: the operation, its
\* arguments, whether it returned without error, and the binding whose
\* RoleRef it resolves ("" for a list).
Call(operation, namespace, name, ok, bindingKind, bindingName) ==
    [op |-> operation, ns |-> namespace, name |-> name, ok |-> ok,
     bindingKind |-> bindingKind, binding |-> bindingName]

(***************************************************************************)
(* pkg/rbac/resolver.go : the grants a binding contributes.                *)
(***************************************************************************)
\* The PermissionGrant built in the ClusterRoleBinding loop.
ClusterGrant(crb, clusterRole, rule) ==
    [Binding |-> [Kind |-> "ClusterRoleBinding", Name |-> crb.Name,
                  Namespace |-> ""],
     Role |-> [Kind |-> "ClusterRole", Name |-> clusterRole.Name,
               Namespace |-> ""],
     MatchingRule |-> rule,
     Scope |-> ScopeClusterWide]

\* Faulty variant of NamespaceGrant: the scope is taken from the kind of the
\* role instead of the kind of the binding.
NamespaceGrantScopedByRole(rb, roleInfo, rule) ==
    [Binding |-> [Kind |-> "RoleBinding", Name |-> rb.Name,
                  Namespace |-> rb.Namespace],
     Role |-> roleInfo,
     MatchingRule |-> rule,
     Scope |-> IF roleInfo.Kind = "ClusterRole" THEN ScopeClusterWide
               ELSE ScopeNamespace]

\* The PermissionGrant built in the RoleBinding loop.
NamespaceGrant(rb, roleInfo, rule) ==
    [Binding |-> [Kind |-> "RoleBinding", Name |-> rb.Name,
                  Namespace |-> rb.Namespace],
     Role |-> roleInfo,
     MatchingRule |-> rule,
     Scope |-> ScopeNamespace]

\* Faulty variant of ClusterGrants: a rule already reported through the same role by
\* an earlier binding is dropped (deduplication of identical permissions).
ClusterGrantsDeduplicated(crb, clusterRole, rules) ==
    LET Fresh(rule) ==
            \A k \in 1..Len(result.Grants) :
                ~(/\ result.Grants[k].Role.Name = clusterRole.Name
                  /\ result.Grants[k].MatchingRule = rule)
        kept == SelectSeq(rules, Fresh)
    IN  [k \in 1..Len(kept) |-> ClusterGrant(crb, clusterRole, kept[k])]

\* The grants appended for the rules kept of one binding's role, in rule order.
ClusterGrants(crb, clusterRole, rules) ==
    [k \in 1..Len(rules) |-> ClusterGrant(crb, clusterRole, rules[k])]

\* Faulty variant of NamespaceGrants: the rules are appended once for every
\* entry of the binding that matches the subject.
NamespaceGrantsPerEntry(rb, roleInfo, rules) ==
    LET once == [k \in 1..Len(rules) |-> NamespaceGrant(rb, roleInfo, rules[k])]
        Hit(e) == SubjectMatchesWithGroups(e, subject, groups)
        hits == SelectSeq(rb.Subjects, Hit)
    IN  [k \in 1..(Len(hits) * Len(once)) |-> once[((k - 1) % Len(once)) + 1]]

NamespaceGrants(rb, roleInfo, rules) ==
    [k \in 1..Len(rules) |-> NamespaceGrant(rb, roleInfo, rules[k])]

\* Faulty variant of AppendGrants: the new grants are put in front.
PrependGrants(grants, new) == new \o grants

\* "result.Grants = append(result.Grants, grant)" for each grant of a binding.
AppendGrants(grants, new) == grants \o new

\* Faulty variant of IsAllowed: a result with lookup errors is not allowed.
IsAllowedWithoutErrors(res) == Len(res.Grants) > 0 /\ Len(res.Errors) = 0

\* "result.Allowed = len(result.Grants) > 0"
IsAllowed(res) == Len(res.Grants) > 0

\* roleInfo of a RoleBinding whose RoleRef names a ClusterRole / a Role.
ClusterRoleInfo(clusterRole) ==
    [Kind |-> "ClusterRole", Name |-> clusterRole.Name, Namespace |-> ""]

RoleInfo(role) ==
    [Kind |-> "Role", Name |-> role.Name, Namespace |-> role.Namespace]

\* Faulty variant of MatchingRules: the loop stops at the first rule that
\* matches.
MatchingRulesFirstOnly(rules, req) ==
    LET Hit(rule) == RuleMatches(rule, req)
        hits == SelectSeq(rules, Hit)
    IN  IF Len(hits) = 0 THEN <<>> ELSE <<hits[1]>>

\* "for _, rule := range rules { if RuleMatches(rule, request) {...} }"
MatchingRules(rules, req) ==
    LET Hit(rule) == RuleMatches(rule, req)
    IN  SelectSeq(rules, Hit)

\* Faulty variant of AfterClusterRoleBindings: the RoleBindings are listed
\* whatever the namespace.
AfterClusterRoleBindingsAnyNamespace(list, k, namespace) ==
    IF k <= Len(list) THEN "clusterRoleBindings" ELSE "listRoleBindings"

\* The loop left at position k of a list: on to the next binding, or past it.
AfterClusterRoleBindings(list, k, namespace) ==
    IF k <= Len(list) THEN "clusterRoleBindings"
    ELSE IF namespace # "" THEN "listRoleBindings"
    ELSE "return"

AfterRoleBindings(list, k) ==
    IF k <= Len(list) THEN "roleBindings" ELSE "return"

(***************************************************************************)
(* Initial state: a mock client holding the fixture roles and no binding,  *)
(* and no call in progress.                                                *)
(***************************************************************************)
NoSubject == [Kind |-> "", Name |-> "", Namespace |-> "", Groups |-> <<>>]
NoRequest ==
    [Verb |-> "", APIGroup |-> "", Resource |-> "", Subresource |-> "",
     ResourceName |-> "", Namespace |-> ""]
NoResult == [Grants |-> <<>>]
Nil == [nil |-> TRUE]
NoReturn == [kind |-> "none", val |-> Nil, err |-> ""]
NoMatchIn == [entry |-> Entry("", "", ""), subject |-> NoSubject, groups |-> <<>>]
NoMatchOut == [fn |-> "", ret |-> FALSE]
NoContext ==
    [op |-> "", pc |-> "idle", subject |-> NoSubject, request |-> NoRequest,
     groups |-> <<>>, items |-> <<>>, i |-> 0, result |-> NoResult,
     ret |-> NoReturn, calls |-> <<>>]
NoLast ==
    [op |-> "", subject |-> NoSubject, request |-> NoRequest, ret |-> NoReturn,
     calls |-> <<>>]

IdleCall ==
    /\ op = ""
    /\ pc = "idle"
    /\ subject = NoSubject
    /\ request = NoRequest
    /\ groups = <<>>
    /\ items = <<>>
    /\ i = 0
    /\ result = NoResult
    /\ ret = NoReturn
    /\ calls = <<>>

Init ==
    /\ client = [Roles |-> FixtureRoles,
                 ClusterRoles |-> FixtureClusterRoles,
                 RoleBindings |-> <<>>,
                 ClusterRoleBindings |-> <<>>]
    /\ IdleCall
    /\ mIn = NoMatchIn
    /\ mOut = NoMatchOut
    /\ last = NoLast
    /\ parked = NoContext

(***************************************************************************)
(* pkg/client/mock_client.go : building the snapshot.  Bindings are added  *)
(* while no call is in progress; a call reads one snapshot.                *)
(***************************************************************************)
NumBindings(c) ==
    LET RECURSIVE Sum(_)
        Sum(S) == IF S = {} THEN 0
                  ELSE LET ns == CHOOSE n \in S : TRUE
                       IN  Len(c.RoleBindings[ns]) + Sum(S \ {ns})
    IN  Len(c.ClusterRoleBindings) + Sum(DOMAIN c.RoleBindings)

AddClusterRoleBinding(crb) ==
    /\ pc = "idle"
    /\ NumBindings(client) < MaxBindings
    /\ client' = [client EXCEPT !.ClusterRoleBindings = Append(@, crb)]
    /\ UNCHANGED <<callVars, matchVars, last, parked>>

AddRoleBinding(rb) ==
    /\ pc = "idle"
    /\ NumBindings(client) < MaxBindings
    /\ client' =
         [client EXCEPT !.RoleBindings =
            IF rb.Namespace \in DOMAIN @
            THEN [@ EXCEPT ![rb.Namespace] = Append(@, rb)]
            ELSE @ @@ (rb.Namespace :> <<rb>>)]
    /\ UNCHANGED <<callVars, matchVars, last, parked>>

\* The names the bindings get: unique per kind and namespace.
NextClusterRoleBindingName(c) ==
    "crb" \o ToString(Len(c.ClusterRoleBindings) + 1)

NextRoleBindingName(c, namespace) ==
    "rb" \o ToString(Len(ListRoleBindings(c, namespace).val) + 1)

\* Faulty variant of HardError: what was collected so far is returned with the error.
HardErrorWithPartialResult(msg) == [kind |-> "error", val |-> result, err |-> msg]

\* "return nil, fmt.Errorf(...)": a hard error carries no result.
HardError(msg) == [kind |-> "error", val |-> Nil, err |-> msg]

\* Faulty variant of ResolvePermission: the grants of the call before are
\* still in the result the call starts from.
ResolvePermissionKeepingGrants(s, req) ==
    /\ pc = "idle"
    /\ \E fault \in BOOLEAN :
         LET crbs == IF fault THEN Failed ELSE ListClusterRoleBindings(client)
             kept == IF last.ret.kind = "result" THEN last.ret.val.Grants
                     ELSE <<>>
         IN  /\ op' = "ResolvePermission"
             /\ subject' = s
             /\ request' = req
             /\ groups' = GetImplicitGroups(s)
             /\ result' = [Request |-> req, Subject |-> s, Allowed |-> FALSE,
                           Grants |-> kept, Errors |-> <<>>]
             /\ calls' = <<Call("ListClusterRoleBindings", "", "", crbs.ok, "", "")>>
             /\ IF ~crbs.ok
                THEN /\ items' = <<>>
                     /\ i' = 0
                     /\ ret' = HardError("failed to list cluster role bindings")
                     /\ pc' = "returned"
                ELSE /\ items' = crbs.val
                     /\ i' = 1
                     /\ ret' = NoReturn
                     /\ pc' = AfterClusterRoleBindings(crbs.val, 1, req.Namespace)
    /\ UNCHANGED <<client, matchVars, last, parked>>

(***************************************************************************)
(* pkg/rbac/resolver.go : Resolver.ResolvePermission, one action per       *)
(* data-source read and the code around it.                                *)
(***************************************************************************)
\* Lines 58-72: the result is set up, the implicit groups computed and the
\* ClusterRoleBindings listed; a failed list returns (nil, err).
ResolvePermission(s, req) ==
    /\ pc = "idle"
    /\ \E fault \in BOOLEAN :
         LET crbs == IF fault THEN Failed ELSE ListClusterRoleBindings(client)
         IN  /\ op' = "ResolvePermission"
             /\ subject' = s
             /\ request' = req
             /\ groups' = GetImplicitGroups(s)
             /\ result' = [Request |-> req, Subject |-> s, Allowed |-> FALSE,
                           Grants |-> <<>>, Errors |-> <<>>]
             /\ calls' = <<Call("ListClusterRoleBindings", "", "", crbs.ok, "", "")>>
             /\ IF ~crbs.ok
                THEN /\ items' = <<>>
                     /\ i' = 0
                     /\ ret' = HardError("failed to list cluster role bindings")
                     /\ pc' = "returned"
                ELSE /\ items' = crbs.val
                     /\ i' = 1
                     /\ ret' = NoReturn
                     /\ pc' = AfterClusterRoleBindings(crbs.val, 1, req.Namespace)
    /\ UNCHANGED <<client, matchVars, last, parked>>

\* Faulty variant of RPClusterRoleBinding: a ClusterRole fetched earlier in the
\* call is taken from a cache instead of being fetched again.
RPClusterRoleBindingCached ==
    /\ op = "ResolvePermission"
    /\ pc = "clusterRoleBindings"
    /\ LET crb == items[i]
           cached == \E j \in 1..Len(calls) :
                        /\ calls[j].op = "GetClusterRole"
                        /\ calls[j].name = crb.RoleRef.Name
                        /\ calls[j].ok
       IN  IF ~bindingMatchesSubject(crb.Subjects, subject, groups)
           THEN UNCHANGED <<result, calls>>
           ELSE IF cached
           THEN LET got == GetClusterRole(client, crb.RoleRef.Name)
                IN  /\ UNCHANGED calls
                    /\ result' = [result EXCEPT !.Grants = AppendGrants(@,
                                    ClusterGrants(crb, got.val,
                                      MatchingRules(got.val.Rules, request)))]
           ELSE \E fault \in BOOLEAN :
                  LET got == IF fault THEN Failed
                             ELSE GetClusterRole(client, crb.RoleRef.Name)
                  IN  /\ calls' = Append(calls,
                            Call("GetClusterRole", "", crb.RoleRef.Name, got.ok,
                                 "ClusterRoleBinding", crb.Name))
                      /\ result' =
                           IF ~got.ok
                           THEN [result EXCEPT !.Errors = Append(@,
                                   "failed to get cluster role " \o crb.RoleRef.Name)]
                           ELSE [result EXCEPT !.Grants = AppendGrants(@,
                                   ClusterGrants(crb, got.val,
                                     MatchingRules(got.val.Rules, request)))]
    /\ i' = i + 1
    /\ pc' = AfterClusterRoleBindings(items, i + 1, request.Namespace)
    /\ UNCHANGED <<client, op, subject, request, groups, items, ret, matchVars, last, parked>>

\* Lines 74-104: one iteration of the loop over crbs.Items.
RPClusterRoleBinding ==
    /\ op = "ResolvePermission"
    /\ pc = "clusterRoleBindings"
    /\ LET crb == items[i]
       IN  IF ~bindingMatchesSubject(crb.Subjects, subject, groups)
           THEN UNCHANGED <<result, calls>>
           ELSE \E fault \in BOOLEAN :
                  LET got == IF fault THEN Failed
                             ELSE GetClusterRole(client, crb.RoleRef.Name)
                  IN  /\ calls' = Append(calls,
                            Call("GetClusterRole", "", crb.RoleRef.Name, got.ok,
                                 "ClusterRoleBinding", crb.Name))
                      /\ result' =
                           IF ~got.ok
                           THEN [result EXCEPT !.Errors = Append(@,
                                   "failed to get cluster role " \o crb.RoleRef.Name)]
                           ELSE [result EXCEPT !.Grants = AppendGrants(@,
                                   ClusterGrants(crb, got.val,
                                     MatchingRules(got.val.Rules, request)))]
    /\ i' = i + 1
    /\ pc' = AfterClusterRoleBindings(items, i + 1, request.Namespace)
    /\ UNCHANGED <<client, op, subject, request, groups, items, ret, matchVars, last, parked>>

\* Lines 106-111: the RoleBindings of request.Namespace are listed; a failed
\* list returns (nil, err).
RPListRoleBindings ==
    /\ op = "ResolvePermission"
    /\ pc = "listRoleBindings"
    /\ \E fault \in BOOLEAN :
         LET rbs == IF fault THEN Failed
                    ELSE ListRoleBindings(client, request.Namespace)
         IN  /\ calls' = Append(calls,
                   Call("ListRoleBindings", request.Namespace, "", rbs.ok, "", ""))
             /\ IF ~rbs.ok
                THEN /\ UNCHANGED <<items, i>>
                     /\ ret' = HardError("failed to list role bindings in namespace "
                                          \o request.Namespace)
                     /\ pc' = "returned"
                ELSE /\ items' = rbs.val
                     /\ i' = 1
                     /\ ret' = NoReturn
                     /\ pc' = AfterRoleBindings(rbs.val, 1)
    /\ UNCHANGED <<client, op, subject, request, groups, result, matchVars, last, parked>>

\* Lines 113-163: one iteration of the loop over rbs.Items.
RPRoleBinding ==
    /\ op = "ResolvePermission"
    /\ pc = "roleBindings"
    /\ LET rb == items[i]
       IN  IF ~bindingMatchesSubject(rb.Subjects, subject, groups)
           THEN UNCHANGED <<result, calls>>
           ELSE \E fault \in BOOLEAN :
                  IF rb.RoleRef.Kind = "ClusterRole"
                  THEN LET got == IF fault THEN Failed
                                  ELSE GetClusterRole(client, rb.RoleRef.Name)
                       IN  /\ calls' = Append(calls,
                                 Call("GetClusterRole", "", rb.RoleRef.Name, got.ok,
                                      "RoleBinding", rb.Name))
                           /\ result' =
                                IF ~got.ok
                                THEN [result EXCEPT !.Errors = Append(@,
                                        "failed to get cluster role " \o rb.RoleRef.Name)]
                                ELSE [result EXCEPT !.Grants = AppendGrants(@,
                                        NamespaceGrants(rb, ClusterRoleInfo(got.val),
                                          MatchingRules(got.val.Rules, request)))]
                  ELSE LET got == IF fault THEN Failed
                                  ELSE GetRole(client, request.Namespace, rb.RoleRef.Name)
                       IN  /\ calls' = Append(calls,
                                 Call("GetRole", request.Namespace, rb.RoleRef.Name,
                                      got.ok, "RoleBinding", rb.Name))
                           /\ result' =
                                IF ~got.ok
                                THEN [result EXCEPT !.Errors = Append(@,
                                        "failed to get role " \o rb.RoleRef.Name
                                        \o " in namespace " \o request.Namespace)]
                                ELSE [result EXCEPT !.Grants = AppendGrants(@,
                                        NamespaceGrants(rb, RoleInfo(got.val),
                                          MatchingRules(got.val.Rules, request)))]
    /\ i' = i + 1
    /\ pc' = AfterRoleBindings(items, i + 1)
    /\ UNCHANGED <<client, op, subject, request, groups, items, ret, matchVars, last, parked>>

\* Lines 166-167: Allowed is set and the result returned.
RPReturn ==
    /\ op = "ResolvePermission"
    /\ pc = "return"
    /\ result' = [result EXCEPT !.Allowed = IsAllowed(result)]
    /\ ret' = [kind |-> "result", val |-> result', err |-> ""]
    /\ pc' = "returned"
    /\ UNCHANGED <<client, op, subject, request, groups, items, i, calls, matchVars, last, parked>>

(***************************************************************************)
(* pkg/rbac/resolver.go : Resolver.ResolveAllPermissions.  result.Grants   *)
(* is its local "grants"; request carries its namespace argument.          *)
(***************************************************************************)
\* Lines 181-189.
ResolveAllPermissions(s, namespace) ==
    /\ pc = "idle"
    /\ \E fault \in BOOLEAN :
         LET crbs == IF fault THEN Failed ELSE ListClusterRoleBindings(client)
         IN  /\ op' = "ResolveAllPermissions"
             /\ subject' = s
             /\ request' = [NoRequest EXCEPT !.Namespace = namespace]
             /\ groups' = GetImplicitGroups(s)
             /\ result' = [Grants |-> <<>>]
             /\ calls' = <<Call("ListClusterRoleBindings", "", "", crbs.ok, "", "")>>
             /\ IF ~crbs.ok
                THEN /\ items' = <<>>
                     /\ i' = 0
                     /\ ret' = HardError("failed to list cluster role bindings")
                     /\ pc' = "returned"
                ELSE /\ items' = crbs.val
                     /\ i' = 1
                     /\ ret' = NoReturn
                     /\ pc' = AfterClusterRoleBindings(crbs.val, 1, namespace)
    /\ UNCHANGED <<client, matchVars, last, parked>>

\* Lines 191-216: a failed get skips the binding and records nothing.
RAPClusterRoleBinding ==
    /\ op = "ResolveAllPermissions"
    /\ pc = "clusterRoleBindings"
    /\ LET crb == items[i]
       IN  IF ~bindingMatchesSubject(crb.Subjects, subject, groups)
           THEN UNCHANGED <<result, calls>>
           ELSE \E fault \in BOOLEAN :
                  LET got == IF fault THEN Failed
                             ELSE GetClusterRole(client, crb.RoleRef.Name)
                  IN  /\ calls' = Append(calls,
                            Call("GetClusterRole", "", crb.RoleRef.Name, got.ok,
                                 "ClusterRoleBinding", crb.Name))
                      /\ result' =
                           IF ~got.ok THEN result
                           ELSE [result EXCEPT !.Grants = AppendGrants(@,
                                   ClusterGrants(crb, got.val, got.val.Rules))]
    /\ i' = i + 1
    /\ pc' = AfterClusterRoleBindings(items, i + 1, request.Namespace)
    /\ UNCHANGED <<client, op, subject, request, groups, items, ret, matchVars, last, parked>>

\* Lines 218-223.
RAPListRoleBindings ==
    /\ op = "ResolveAllPermissions"
    /\ pc = "listRoleBindings"
    /\ \E fault \in BOOLEAN :
         LET rbs == IF fault THEN Failed
                    ELSE ListRoleBindings(client, request.Namespace)
         IN  /\ calls' = Append(calls,
                   Call("ListRoleBindings", request.Namespace, "", rbs.ok, "", ""))
             /\ IF ~rbs.ok
                THEN /\ UNCHANGED <<items, i>>
                     /\ ret' = HardError("failed to list role bindings")
                     /\ pc' = "returned"
                ELSE /\ items' = rbs.val
                     /\ i' = 1
                     /\ ret' = NoReturn
                     /\ pc' = AfterRoleBindings(rbs.val, 1)
    /\ UNCHANGED <<client, op, subject, request, groups, result, matchVars, last, parked>>

\* Lines 225-262.
RAPRoleBinding ==
    /\ op = "ResolveAllPermissions"
    /\ pc = "roleBindings"
    /\ LET rb == items[i]
       IN  IF ~bindingMatchesSubject(rb.Subjects, subject, groups)
           THEN UNCHANGED <<result, calls>>
           ELSE \E fault \in BOOLEAN :
                  IF rb.RoleRef.Kind = "ClusterRole"
                  THEN LET got == IF fault THEN Failed
                                  ELSE GetClusterRole(client, rb.RoleRef.Name)
                       IN  /\ calls' = Append(calls,
                                 Call("GetClusterRole", "", rb.RoleRef.Name, got.ok,
                                      "RoleBinding", rb.Name))
                           /\ result' =
                                IF ~got.ok THEN result
                                ELSE [result EXCEPT !.Grants = AppendGrants(@,
                                        NamespaceGrants(rb, ClusterRoleInfo(got.val),
                                          got.val.Rules))]
                  ELSE LET got == IF fault THEN Failed
                                  ELSE GetRole(client, request.Namespace, rb.RoleRef.Name)
                       IN  /\ calls' = Append(calls,
                                 Call("GetRole", request.Namespace, rb.RoleRef.Name,
                                      got.ok, "RoleBinding", rb.Name))
                           /\ result' =
                                IF ~got.ok THEN result
                                ELSE [result EXCEPT !.Grants = AppendGrants(@,
                                        NamespaceGrants(rb, RoleInfo(got.val),
                                          got.val.Rules))]
    /\ i' = i + 1
    /\ pc' = AfterRoleBindings(items, i + 1)
    /\ UNCHANGED <<client, op, subject, request, groups, items, ret, matchVars, last, parked>>

\* Line 265: "return grants, nil".
RAPReturn ==
    /\ op = "ResolveAllPermissions"
    /\ pc = "return"
    /\ ret' = [kind |-> "grants", val |-> result.Grants, err |-> ""]
    /\ pc' = "returned"
    /\ UNCHANGED <<client, op, subject, request, groups, items, i, result, calls,
                   matchVars, last, parked>>

\* The caller is done with what the call returned; the next call starts afresh.
Done ==
    /\ pc = "returned"
    /\ op' = ""
    /\ pc' = "idle"
    /\ subject' = NoSubject
    /\ request' = NoRequest
    /\ groups' = <<>>
    /\ items' = <<>>
    /\ i' = 0
    /\ result' = NoResult
    /\ ret' = NoReturn
    /\ calls' = <<>>
    /\ UNCHANGED <<client, matchVars, last, parked>>

Next ==
    \/ \E crb \in ClusterRoleBindingPool :
         AddClusterRoleBinding(
           [crb EXCEPT !.Name = NextClusterRoleBindingName(client)])
    \/ \E rb \in RoleBindingPool :
         AddRoleBinding(
           [rb EXCEPT !.Name = NextRoleBindingName(client, rb.Namespace)])
    \/ \E s \in Subjects, req \in Requests : ResolvePermission(s, req)
    \/ RPClusterRoleBinding
    \/ RPListRoleBindings
    \/ RPRoleBinding
    \/ RPReturn
    \/ \E s \in Subjects, namespace \in QueryNamespaces :
         ResolveAllPermissions(s, namespace)
    \/ RAPClusterRoleBinding
    \/ RAPListRoleBindings
    \/ RAPRoleBinding
    \/ RAPReturn
    \/ Done

Spec == Init /\ [][Next]_vars

(***************************************************************************)
(* Harness for the pure functions of matcher.go: the arguments are drawn   *)
(* in the initial state and each action applies one function to them.      *)
(***************************************************************************)
MatchKinds == {"User", "Group", "ServiceAccount"}
MatchNamespaces == {"", "default", "kube"}

MatchEntries ==
    { Entry(kind, name, namespace) :
        kind \in MatchKinds,
        name \in {"sa1", "jane", "devs", "system:authenticated",
                  "system:serviceaccounts", "system:serviceaccounts:default",
                  "system:serviceaccounts:kube"},
        namespace \in MatchNamespaces }

MatchSubjects ==
    { [Kind |-> kind, Name |-> name, Namespace |-> namespace, Groups |-> <<>>] :
        kind \in MatchKinds, name \in {"sa1", "jane", "devs"},
        namespace \in MatchNamespaces }

\* The group lists a caller passes: the subject's implicit groups, none, or
\* groups of its own.
MatchGroupLists(s) ==
    { GetImplicitGroups(s), <<>>, <<"devs", "system:serviceaccounts:kube">> }

InitMatch ==
    /\ client = [Roles |-> FixtureRoles,
                 ClusterRoles |-> FixtureClusterRoles,
                 RoleBindings |-> <<>>,
                 ClusterRoleBindings |-> <<>>]
    /\ IdleCall
    /\ \E e \in MatchEntries, s \in MatchSubjects :
         \E g \in MatchGroupLists(s) :
           mIn = [entry |-> e, subject |-> s, groups |-> g]
    /\ mOut = NoMatchOut
    /\ last = NoLast
    /\ parked = NoContext

ApplySubjectMatches ==
    /\ mOut.fn = ""
    /\ mOut' = [fn |-> "SubjectMatches",
                ret |-> SubjectMatches(mIn.entry, mIn.subject)]
    /\ UNCHANGED <<client, callVars, mIn, last, parked>>

ApplySubjectMatchesWithGroups ==
    /\ mOut.fn = ""
    /\ mOut' = [fn |-> "SubjectMatchesWithGroups",
                ret |-> SubjectMatchesWithGroups(mIn.entry, mIn.subject, mIn.groups)]
    /\ UNCHANGED <<client, callVars, mIn, last, parked>>

ApplyGetImplicitGroups ==
    /\ mOut.fn = ""
    /\ mOut' = [fn |-> "GetImplicitGroups", ret |-> GetImplicitGroups(mIn.subject)]
    /\ UNCHANGED <<client, callVars, mIn, last, parked>>

NextMatch ==
    \/ ApplySubjectMatches
    \/ ApplySubjectMatchesWithGroups
    \/ ApplyGetImplicitGroups

SpecMatch == InitMatch /\ [][NextMatch]_vars

(***************************************************************************)
(* Properties of the resolver (checked under Spec).                        *)
(***************************************************************************)
Range(seq) == {seq[k] : k \in 1..Len(seq)}

\* A ResolvePermission call that returned a PermissionResult.
RPResult == op = "ResolvePermission" /\ pc = "returned" /\ ret.kind = "result"

\* The grants a call returned (none on a hard error).
ReturnedGrants ==
    IF ret.kind = "result" THEN ret.val.Grants
    ELSE IF ret.kind = "grants" THEN ret.val
    ELSE <<>>

\* The binding lists of the snapshot the call's request has it consult.
ConsultedList(kind) ==
    IF kind = "ClusterRoleBinding" THEN client.ClusterRoleBindings
    ELSE IF request.Namespace # "" /\ request.Namespace \in DOMAIN client.RoleBindings
         THEN client.RoleBindings[request.Namespace]
    ELSE <<>>

\* Consulted bindings, each named by its kind and its position in its list.
Consulted ==
    {<<kind, k>> : kind \in {"ClusterRoleBinding"}, k \in 1..Len(ConsultedList("ClusterRoleBinding"))}
    \cup
    {<<kind, k>> : kind \in {"RoleBinding"}, k \in 1..Len(ConsultedList("RoleBinding"))}

BindingAt(b) == ConsultedList(b[1])[b[2]]

\* The binding has an entry that matches the call's subject, directly or
\* through one of the subject's implicit groups.
HasMatchingEntry(b) ==
    \E e \in Range(BindingAt(b).Subjects) :
        SubjectMatchesWithGroups(e, subject, GetImplicitGroups(subject))

\* The get calls issued for the binding, as positions of the log.
GetsFor(b) ==
    {j \in 1..Len(calls) :
        /\ calls[j].bindingKind = b[1]
        /\ calls[j].binding = BindingAt(b).Name}

FetchSucceeded(b) == \E j \in GetsFor(b) : calls[j].ok
FetchFailed(b) == \E j \in GetsFor(b) : ~calls[j].ok

\* The role object the binding's RoleRef denotes in the snapshot.
ReferencedRole(b) ==
    IF b[1] = "ClusterRoleBinding" \/ BindingAt(b).RoleRef.Kind = "ClusterRole"
    THEN GetClusterRole(client, BindingAt(b).RoleRef.Name)
    ELSE GetRole(client, request.Namespace, BindingAt(b).RoleRef.Name)

\* The (binding, rule position) pairs that justify the request.
GrantingPairs ==
    UNION { {<<b, r>> : r \in {q \in 1..Len(ReferencedRole(b).val.Rules) :
                                 RuleMatches(ReferencedRole(b).val.Rules[q], request)}} :
            b \in {c \in Consulted : HasMatchingEntry(c) /\ FetchSucceeded(c)} }

\* What identifies the chain in a grant: the binding and the rule.
ChainOf(g) == <<g.Binding.Kind, g.Binding.Name, g.MatchingRule>>
ChainOfPair(p) ==
    <<p[1][1], BindingAt(p[1]).Name, ReferencedRole(p[1]).val.Rules[p[2]]>>

\* C1: a ResolvePermission result holds exactly one grant per (consulted
\* binding, rule position) pair whose binding matches the subject, whose role
\* was fetched and whose rule satisfies RuleMatches: as many grants as pairs,
\* and every chain as often among the grants as among the pairs (no
\* deduplication, no invention).
C1_OneGrantPerPair ==
    RPResult =>
        LET G == ret.val.Grants
        IN  /\ Len(G) = Cardinality(GrantingPairs)
            /\ \A p \in GrantingPairs :
                 Cardinality({k \in 1..Len(G) : ChainOf(G[k]) = ChainOfPair(p)})
                   = Cardinality({q \in GrantingPairs : ChainOfPair(q) = ChainOfPair(p)})
            /\ \A k \in 1..Len(G) :
                 \E p \in GrantingPairs : ChainOfPair(p) = ChainOf(G[k])

\* C1 witness: two bindings grant through the same rule of the same role (and
\* one role holds two matching rules), and all of them are reported.
C1_Witness ==
    /\ RPResult
    /\ Len(ret.val.Grants) >= 3
    /\ \E a, b \in 1..Len(ret.val.Grants) :
         /\ ret.val.Grants[a].Binding # ret.val.Grants[b].Binding
         /\ ret.val.Grants[a].Role = ret.val.Grants[b].Role
         /\ ret.val.Grants[a].MatchingRule = ret.val.Grants[b].MatchingRule

\* C2: in whatever ResolvePermission or ResolveAllPermissions returns, a
\* grant is cluster-wide exactly when its binding is a ClusterRoleBinding; a
\* grant through a RoleBinding has namespace scope whatever the kind of its role.
C2_ScopeFollowsBinding ==
    \A k \in 1..Len(ReturnedGrants) :
        LET g == ReturnedGrants[k]
        IN  /\ g.Scope \in {ScopeClusterWide, ScopeNamespace}
            /\ (g.Scope = ScopeClusterWide) <=> (g.Binding.Kind = "ClusterRoleBinding")
            /\ (g.Binding.Kind = "RoleBinding") => (g.Scope = ScopeNamespace)

\* C2 witness: a result with a cluster-wide grant and with a grant that a
\* RoleBinding gives through a ClusterRole, scoped to the namespace.
C2_Witness ==
    /\ RPResult
    /\ \E a, b \in 1..Len(ReturnedGrants) :
         /\ ReturnedGrants[a].Binding.Kind = "ClusterRoleBinding"
         /\ ReturnedGrants[a].Scope = ScopeClusterWide
         /\ ReturnedGrants[b].Binding.Kind = "RoleBinding"
         /\ ReturnedGrants[b].Role.Kind = "ClusterRole"
         /\ ReturnedGrants[b].Scope = ScopeNamespace

\* Position of the binding a grant names in the list the data source returns.
BindingPosition(g) ==
    CHOOSE k \in 1..Len(ConsultedList(g.Binding.Kind)) :
        ConsultedList(g.Binding.Kind)[k].Name = g.Binding.Name

\* The rules a call's grants name for one binding, in the grants' order.
RulesGrantedBy(G, binding) ==
    LET Of(g) == g.Binding = binding
        mine == SelectSeq(G, Of)
    IN  [k \in 1..Len(mine) |-> mine[k].MatchingRule]

\* The rules of a role that satisfy the request, in the role's order.
RulesOfRoleMatching(b) ==
    LET Hit(rule) == RuleMatches(rule, request)
    IN  SelectSeq(ReferencedRole(b).val.Rules, Hit)

C4_AllowedIffGrants ==
    RPResult => (ret.val.Allowed <=> Len(ret.val.Grants) > 0)

\* C4 witness: a result that is allowed although a role lookup failed.
C4_Witness ==
    /\ RPResult
    /\ ret.val.Allowed
    /\ Len(ret.val.Errors) >= 1
    /\ Len(ret.val.Grants) >= 1

\* Positions of the log that are get calls / failed list calls.
GetCalls == {j \in 1..Len(calls) : calls[j].op \in {"GetRole", "GetClusterRole"}}
FailedLists ==
    {j \in 1..Len(calls) :
        /\ calls[j].op \in {"ListClusterRoleBindings", "ListRoleBindings"}
        /\ ~calls[j].ok}

\* The RoleRef of the binding names no object of the snapshot.
Dangling(b) == ~ReferencedRole(b).ok

\* C5: in a ResolvePermission result Errors holds one entry per consulted
\* binding that matches the subject and whose role could not be fetched; a
\* failed fetch never turns into a hard error; a matching binding is resolved
\* by exactly one get and a binding that does not match by none; with no
\* matching binding the result is Allowed = false, no Grants, no Errors.
C5_ErrorsPerFailedFetch ==
    /\ RPResult =>
         /\ Len(ret.val.Errors) =
              Cardinality({b \in Consulted : HasMatchingEntry(b) /\ FetchFailed(b)})
         /\ \A b \in Consulted :
              Cardinality(GetsFor(b)) = IF HasMatchingEntry(b) THEN 1 ELSE 0
         /\ \A j \in GetCalls :
              \E b \in Consulted : HasMatchingEntry(b) /\ j \in GetsFor(b)
         /\ (\A b \in Consulted : ~HasMatchingEntry(b)) =>
              /\ ~ret.val.Allowed
              /\ ret.val.Grants = <<>>
              /\ ret.val.Errors = <<>>
    /\ (op = "ResolvePermission" /\ pc = "returned" /\ FailedLists = {}) =>
         ret.kind = "result"

\* C5 witness: a result with one recorded lookup error, from a snapshot in
\* which a consulted binding that does not match the subject is dangling.
C5_Witness ==
    /\ RPResult
    /\ Len(ret.val.Errors) = 1
    /\ \E b \in Consulted : ~HasMatchingEntry(b) /\ Dangling(b)
    /\ \E b \in Consulted : HasMatchingEntry(b) /\ FetchFailed(b)

\* C6: when ListClusterRoleBindings or ListRoleBindings fails, ResolvePermission
\* returns a hard error and no PermissionResult, also when grants had been
\* collected before the failure.
C6_ListFailureIsFatal ==
    (op = "ResolvePermission" /\ pc = "returned" /\ FailedLists # {}) =>
        /\ ret.kind = "error"
        /\ ret.val = Nil

\* C6 witness: ListRoleBindings failed after cluster-wide grants were collected.
C6_Witness ==
    /\ op = "ResolvePermission"
    /\ pc = "returned"
    /\ ret.kind = "error"
    /\ \E j \in FailedLists : calls[j].op = "ListRoleBindings"
    /\ Len(result.Grants) >= 1

\* C7: with an empty namespace, ResolvePermission and ResolveAllPermissions
\* consult ClusterRoleBindings alone: neither ListRoleBindings nor GetRole is
\* called, and every grant is cluster-wide through a ClusterRoleBinding.
C7_EmptyNamespaceClusterOnly ==
    (op # "" /\ request.Namespace = "") =>
        /\ \A j \in 1..Len(calls) : calls[j].op \notin {"ListRoleBindings", "GetRole"}
        /\ \A k \in 1..Len(result.Grants) :
             /\ result.Grants[k].Binding.Kind = "ClusterRoleBinding"
             /\ result.Grants[k].Scope = ScopeClusterWide
        /\ \A k \in 1..Len(ReturnedGrants) :
             /\ ReturnedGrants[k].Binding.Kind = "ClusterRoleBinding"
             /\ ReturnedGrants[k].Scope = ScopeClusterWide

\* C7 witness: a cluster-scoped query that returned grants from a snapshot
\* holding a RoleBinding with an entry matching the subject.
C7_Witness ==
    /\ RPResult
    /\ request.Namespace = ""
    /\ Len(ret.val.Grants) >= 1
    /\ \E ns \in DOMAIN client.RoleBindings :
         \E k \in 1..Len(client.RoleBindings[ns]) :
           \E e \in Range(client.RoleBindings[ns][k].Subjects) :
             SubjectMatchesWithGroups(e, subject, GetImplicitGroups(subject))

(***************************************************************************)
(* Properties of the subject matcher (checked under SpecMatch).            *)
(***************************************************************************)
\* C8: SubjectMatchesWithGroups(entry, subject, groups) is true exactly when
\* SubjectMatches(entry, subject) is, or the entry is a Group named in groups.
\* So a Group system:serviceaccounts entry matches every ServiceAccount with
\* its implicit groups, a Group system:serviceaccounts:<ns> entry matches no
\* ServiceAccount of another namespace, and a User or ServiceAccount entry
\* matches only as SubjectMatches says.
C8_GroupMatching ==
    (mOut.fn = "SubjectMatchesWithGroups") =>
        LET e == mIn.entry
            s == mIn.subject
            implicit == mIn.groups = GetImplicitGroups(s)
        IN  /\ mOut.ret <=>
                 \/ SubjectMatches(e, s)
                 \/ (e.Kind = "Group" /\ e.Name \in Range(mIn.groups))
            /\ (/\ implicit
                /\ s.Kind = "ServiceAccount"
                /\ e.Kind = "Group"
                /\ e.Name = "system:serviceaccounts") => mOut.ret
            /\ \A ns \in MatchNamespaces :
                 (/\ implicit
                  /\ s.Kind = "ServiceAccount"
                  /\ s.Namespace # ns
                  /\ e.Kind = "Group"
                  /\ e.Name = "system:serviceaccounts:" \o ns) => ~mOut.ret
            /\ (e.Kind \in {"User", "ServiceAccount"}) =>
                 (mOut.ret <=> SubjectMatches(e, s))

\* C8 witness: a ServiceAccount that no entry names matches through the
\* implicit group system:serviceaccounts.
C8_Witness ==
    /\ mOut.fn = "SubjectMatchesWithGroups"
    /\ mOut.ret
    /\ mIn.subject.Kind = "ServiceAccount"
    /\ mIn.entry = Entry("Group", "system:serviceaccounts", "")
    /\ mIn.groups = GetImplicitGroups(mIn.subject)
    /\ ~SubjectMatches(mIn.entry, mIn.subject)

\* C9: GetImplicitGroups returns system:authenticated, system:serviceaccounts,
\* system:serviceaccounts:<ns>, in that order, for a ServiceAccount of
\* namespace ns, and system:authenticated alone for a User or a Group.
C9_ImplicitGroups ==
    (mOut.fn = "GetImplicitGroups") =>
        IF mIn.subject.Kind = "ServiceAccount"
        THEN /\ Len(mOut.ret) = 3
             /\ mOut.ret[1] = "system:authenticated"
             /\ mOut.ret[2] = "system:serviceaccounts"
             /\ mOut.ret[3] = "system:serviceaccounts:" \o mIn.subject.Namespace
        ELSE mOut.ret = <<"system:authenticated">>

\* C9 witness: the groups of a ServiceAccount of namespace "default".
C9_Witness ==
    /\ mOut.fn = "GetImplicitGroups"
    /\ mIn.subject.Kind = "ServiceAccount"
    /\ mOut.ret = <<"system:authenticated", "system:serviceaccounts",
                    "system:serviceaccounts:default">>

\* C10: SubjectMatches(entry, subject) is true exactly when the kinds are
\* equal, the names are equal and, for a ServiceAccount subject, the
\* namespaces are equal; for a User or Group subject the entry's namespace
\* changes nothing.
C10_SubjectMatches ==
    (mOut.fn = "SubjectMatches") =>
        LET e == mIn.entry
            s == mIn.subject
        IN  /\ mOut.ret <=>
                 /\ e.Kind = s.Kind
                 /\ e.Name = s.Name
                 /\ (s.Kind = "ServiceAccount") => (e.Namespace = s.Namespace)
            /\ (s.Kind \in {"User", "Group"}) =>
                 \A ns \in MatchNamespaces :
                    SubjectMatches([e EXCEPT !.Namespace = ns], s) = mOut.ret

\* C10 witness: a User matched by an entry that carries a namespace.
C10_Witness ==
    /\ mOut.fn = "SubjectMatches"
    /\ mOut.ret
    /\ mIn.subject.Kind = "User"
    /\ mIn.entry.Namespace # mIn.subject.Namespace

(***************************************************************************)
(* The rule matcher applied to one rule and one request (the table of      *)
(* TestRuleMatches, widened): the arguments are drawn at the start and one *)
(* function of matcher.go is applied to them.                              *)
(***************************************************************************)
RuleVerbLists == { <<"get">>, <<"*">>, <<"get", "list">>, <<"list", "*">> }
RuleGroupLists == { <<"">>, <<"apps">>, <<"*">>, <<"apps", "">> }
RuleResourceLists ==
    { <<"pods">>, <<"pods/*">>, <<"pods/exec">>, <<"*">>, <<"*/*">>,
      <<"secrets", "pods">> }
RuleNameLists == { <<>>, <<"web">>, <<"web", "db">> }

MatchRules ==
    { [Verbs |-> v, APIGroups |-> g, Resources |-> r, ResourceNames |-> n] :
        v \in RuleVerbLists, g \in RuleGroupLists, r \in RuleResourceLists,
        n \in RuleNameLists }

\* The resource argument is whatever the caller typed: "*" included.
MatchRequests ==
    { [Verb |-> v, APIGroup |-> g, Resource |-> r, Subresource |-> s,
       ResourceName |-> n, Namespace |-> "default"] :
        v \in {"get", "delete"}, g \in {"", "apps"},
        r \in {"pods", "secrets", "*"}, s \in {"", "exec", "log"},
        n \in {"", "web", "cache"} }

InitRule ==
    /\ client = [Roles |-> FixtureRoles,
                 ClusterRoles |-> FixtureClusterRoles,
                 RoleBindings |-> <<>>,
                 ClusterRoleBindings |-> <<>>]
    /\ IdleCall
    /\ \E r \in MatchRules, q \in MatchRequests :
         mIn = [rule |-> r, request |-> q]
    /\ mOut = NoMatchOut
    /\ last = NoLast
    /\ parked = NoContext

ApplyRuleMatches ==
    /\ mOut.fn = ""
    /\ mOut' = [fn |-> "RuleMatches", ret |-> RuleMatches(mIn.rule, mIn.request)]
    /\ UNCHANGED <<client, callVars, mIn, last, parked>>

ApplyMatchesVerb ==
    /\ mOut.fn = ""
    /\ mOut' = [fn |-> "matchesVerb",
                ret |-> matchesVerb(mIn.rule.Verbs, mIn.request.Verb)]
    /\ UNCHANGED <<client, callVars, mIn, last, parked>>

ApplyMatchesAPIGroup ==
    /\ mOut.fn = ""
    /\ mOut' = [fn |-> "matchesAPIGroup",
                ret |-> matchesAPIGroup(mIn.rule.APIGroups, mIn.request.APIGroup)]
    /\ UNCHANGED <<client, callVars, mIn, last, parked>>

ApplyMatchesResource ==
    /\ mOut.fn = ""
    /\ mOut' = [fn |-> "matchesResource",
                ret |-> matchesResource(mIn.rule.Resources, mIn.request.Resource,
                                        mIn.request.Subresource)]
    /\ UNCHANGED <<client, callVars, mIn, last, parked>>

NextRule ==
    \/ ApplyRuleMatches
    \/ ApplyMatchesVerb
    \/ ApplyMatchesAPIGroup
    \/ ApplyMatchesResource

SpecRule == InitRule /\ [][NextRule]_vars

\* The three axes RuleMatches tests before it looks at resource names.
AxesMatch(rule, req) ==
    /\ matchesVerb(rule.Verbs, req.Verb)
    /\ matchesAPIGroup(rule.APIGroups, req.APIGroup)
    /\ matchesResource(rule.Resources, req.Resource, req.Subresource)

\* C11: with the verb, API-group and resource axes matching, a rule without
\* ResourceNames matches any request, a rule with ResourceNames matches a
\* request that names no resource, and when the rule declares names and the
\* request names a resource the rule matches exactly when the requested name
\* is one of the rule's names.
C11_ResourceNamePolicy ==
    (mOut.fn = "RuleMatches" /\ AxesMatch(mIn.rule, mIn.request)) =>
        LET names == mIn.rule.ResourceNames
            name == mIn.request.ResourceName
        IN  /\ (Len(names) = 0) => mOut.ret
            /\ (name = "") => mOut.ret
            /\ (Len(names) > 0 /\ name # "") =>
                 (mOut.ret <=> name \in Range(names))

\* C11 witness: a rule that declares names is applied to a request that names
\* no resource, and matches.
C11_Witness ==
    /\ mOut.fn = "RuleMatches"
    /\ mOut.ret
    /\ Len(mIn.rule.ResourceNames) > 0
    /\ mIn.request.ResourceName = ""

\* C12 as stated: a rule whose only resource entry is r/* matches (r, s) for
\* every non-empty s and never (r, ""), and a rule listing only the base
\* resource r never matches (r, s) with non-empty s, for every r.
C12_AsStated ==
    (mOut.fn = "matchesResource") =>
        LET r == mIn.request.Resource
            s == mIn.request.Subresource
        IN  /\ (mIn.rule.Resources = <<r \o "/*">>) => (mOut.ret <=> s # "")
            /\ (mIn.rule.Resources = <<r>> /\ s # "") => ~mOut.ret

\* C12: a rule whose only resource entry is r/* matches the request (r, s) on
\* the resource axis for every non-empty s and never matches (r, ""); a rule
\* listing only the base resource r never matches (r, s) with non-empty s
\* unless r is the wildcard "*", which matches every request.
C12_SubresourceWildcard ==
    (mOut.fn = "matchesResource") =>
        LET r == mIn.request.Resource
            s == mIn.request.Subresource
        IN  /\ (mIn.rule.Resources = <<r \o "/*">>) => (mOut.ret <=> s # "")
            /\ (mIn.rule.Resources = <<r>> /\ s # "") =>
                 (mOut.ret <=> r = ResourceAll)

\* C12 witness: "pods/*" applied to a request for a subresource of pods.
C12_Witness ==
    /\ mOut.fn = "matchesResource"
    /\ mOut.ret
    /\ mIn.rule.Resources = <<"pods/*">>
    /\ mIn.request.Resource = "pods"
    /\ mIn.request.Subresource = "log"

\* C13: for a rule whose Verbs contain "*", RuleMatches does not depend on the
\* requested verb: it is true exactly when the API-group, resource and
\* resource-name axes match.  Without the wildcard the verb axis matches
\* exactly when the requested verb is an element of Verbs.
C13_WildcardVerb ==
    LET rule == mIn.rule
        req == mIn.request
        othersMatch ==
            /\ matchesAPIGroup(rule.APIGroups, req.APIGroup)
            /\ matchesResource(rule.Resources, req.Resource, req.Subresource)
            /\ \/ Len(rule.ResourceNames) = 0
               \/ req.ResourceName = ""
               \/ req.ResourceName \in Range(rule.ResourceNames)
    IN  /\ (mOut.fn = "RuleMatches" /\ VerbAll \in Range(rule.Verbs)) =>
             (mOut.ret <=> othersMatch)
        /\ (mOut.fn = "matchesVerb" /\ VerbAll \notin Range(rule.Verbs)) =>
             (mOut.ret <=> req.Verb \in Range(rule.Verbs))

\* C13 witness: a rule with the wildcard verb matches a request for a verb it
\* does not list.
C13_Witness ==
    /\ mOut.fn = "RuleMatches"
    /\ mOut.ret
    /\ mIn.rule.Verbs = <<"list", "*">>
    /\ mIn.request.Verb = "delete"

\* C14: the empty string is an ordinary API group.  A rule with
\* APIGroups = [""] matches only requests whose APIGroup is ""; a rule with
\* neither "" nor "*" among its APIGroups never matches a request for the
\* core group ""; and on this axis a rule matches a group it does not list
\* exactly when it lists the literal "*".
C14_CoreGroupIsOrdinary ==
    LET grps == Range(mIn.rule.APIGroups)
        g == mIn.request.APIGroup
    IN  /\ (mOut.fn = "RuleMatches" /\ mOut.ret /\ mIn.rule.APIGroups = <<"">>) =>
             g = ""
        /\ (mOut.fn = "RuleMatches" /\ g = "" /\ "" \notin grps
                /\ APIGroupAll \notin grps) => ~mOut.ret
        /\ (mOut.fn = "matchesAPIGroup" /\ g \notin grps) =>
             (mOut.ret <=> APIGroupAll \in grps)
        /\ (mOut.fn = "matchesAPIGroup" /\ g \in grps) => mOut.ret

\* C14 witness: a rule for the core group alone is applied to a request for
\* the group "apps" and does not match on the API-group axis.
C14_Witness ==
    /\ mOut.fn = "matchesAPIGroup"
    /\ ~mOut.ret
    /\ mIn.rule.APIGroups = <<"">>
    /\ mIn.request.APIGroup = "apps"

(***************************************************************************)
(* pkg/rbac/resolver.go : ParseSubject.  Identifiers are strings; the two  *)
(* string functions the code calls are computed on their characters.       *)
(***************************************************************************)
\* strings.HasPrefix
HasPrefix(s, prefix) ==
    Len(s) >= Len(prefix) /\ SubSeq(s, 1, Len(prefix)) = prefix

\* strings.Split(s, ":"): the substrings between the separators, in order.
RECURSIVE SplitColon(_)
SplitColon(s) ==
    LET seps == {k \in 1..Len(s) : SubSeq(s, k, k) = ":"}
    IN  IF seps = {} THEN <<s>>
        ELSE LET k == CHOOSE m \in seps : \A n \in seps : m <= n
             IN  <<SubSeq(s, 1, k - 1)>> \o SplitColon(SubSeq(s, k + 1, Len(s)))

ParsedSubject(kind, namespace, name) ==
    [subject |-> [Kind |-> kind, Name |-> name, Namespace |-> namespace,
                  Groups |-> <<>>],
     err |-> ""]

ParseError(msg) == [subject |-> NoSubject, err |-> msg]

\* Faulty variant of ParseSubject: fields after the fourth are ignored.
ParseSubjectExtraFieldsIgnored(asString) ==
    IF asString = "" THEN ParseError("subject cannot be empty")
    ELSE IF HasPrefix(asString, "system:serviceaccount:")
         THEN LET parts == SplitColon(asString)
              IN  IF Len(parts) < 4
                  THEN ParseError("invalid serviceaccount format")
                  ELSE ParsedSubject("ServiceAccount", parts[3], parts[4])
    ELSE IF HasPrefix(asString, "system:")
         THEN ParsedSubject("Group", "", asString)
    ELSE ParsedSubject("User", "", asString)

ParseSubject(asString) ==
    IF asString = "" THEN ParseError("subject cannot be empty")
    ELSE IF HasPrefix(asString, "system:serviceaccount:")
         THEN LET parts == SplitColon(asString)
              IN  IF Len(parts) # 4
                  THEN ParseError("invalid serviceaccount format")
                  ELSE ParsedSubject("ServiceAccount", parts[3], parts[4])
    ELSE IF HasPrefix(asString, "system:")
         THEN ParsedSubject("Group", "", asString)
    ELSE ParsedSubject("User", "", asString)

\* The identifiers a caller passes: up to MaxFields fields joined by colons.
MaxFields == 5

IdentifierFields ==
    {"", "system", "serviceaccount", "serviceaccounts", "default", "my-sa",
     "jane@example.com"}

RECURSIVE JoinColon(_)
JoinColon(fields) ==
    IF Len(fields) = 0 THEN ""
    ELSE IF Len(fields) = 1 THEN fields[1]
    ELSE fields[1] \o ":" \o JoinColon(Tail(fields))

Identifiers ==
    UNION { [1..n -> IdentifierFields] : n \in 1..MaxFields }

InitParse ==
    /\ client = [Roles |-> FixtureRoles,
                 ClusterRoles |-> FixtureClusterRoles,
                 RoleBindings |-> <<>>,
                 ClusterRoleBindings |-> <<>>]
    /\ IdleCall
    /\ \E f \in Identifiers : mIn = [fields |-> f, asString |-> JoinColon(f)]
    /\ mOut = NoMatchOut
    /\ last = NoLast
    /\ parked = NoContext

ApplyParseSubject ==
    /\ mOut.fn = ""
    /\ mOut' = [fn |-> "ParseSubject", ret |-> ParseSubject(mIn.asString)]
    /\ UNCHANGED <<client, callVars, mIn, last, parked>>

NextParse == ApplyParseSubject

SpecParse == InitParse /\ [][NextParse]_vars

\* C15: ParseSubject classifies every identifier.  The empty string is an
\* error; an identifier that starts with "system:serviceaccount:" yields a
\* ServiceAccount whose Namespace is the third colon-delimited field and
\* whose Name is the fourth when exactly two fields follow the prefix, and is
\* an error otherwise; any other identifier that starts with "system:" yields
\* a Group named by the whole identifier; every other identifier yields a
\* User named by the whole identifier.
C15_ParseSubject ==
    (mOut.fn = "ParseSubject") =>
        LET f == mIn.fields
            s == mIn.asString
            n == Len(f)
            out == mOut.ret
            isServiceAccount ==
                n >= 3 /\ f[1] = "system" /\ f[2] = "serviceaccount"
            isSystem == n >= 2 /\ f[1] = "system"
        IN  IF s = "" THEN out.err # "" /\ out.subject = NoSubject
            ELSE IF isServiceAccount
                 THEN IF n = 4
                      THEN /\ out.err = ""
                           /\ out.subject.Kind = "ServiceAccount"
                           /\ out.subject.Namespace = f[3]
                           /\ out.subject.Name = f[4]
                      ELSE out.err # "" /\ out.subject = NoSubject
            ELSE IF isSystem
                 THEN /\ out.err = ""
                      /\ out.subject.Kind = "Group"
                      /\ out.subject.Name = s
            ELSE /\ out.err = ""
                 /\ out.subject.Kind = "User"
                 /\ out.subject.Name = s

\* C15 witness: the identifier of a service account is parsed.
C15_Witness ==
    /\ mOut.fn = "ParseSubject"
    /\ mIn.asString = "system:serviceaccount:default:my-sa"
    /\ mOut.ret.err = ""
    /\ mOut.ret.subject.Kind = "ServiceAccount"
    /\ mOut.ret.subject.Namespace = "default"
    /\ mOut.ret.subject.Name = "my-sa"

(***************************************************************************)
(* Two calls on one snapshot: the caller keeps what the first call         *)
(* returned and calls the resolver again for the same subject, with no     *)
(* binding added in between.  The second call is ResolvePermission; after  *)
(* a first ResolvePermission it repeats the request, after a first         *)
(* ResolveAllPermissions it asks in the namespace that call was given.     *)
(***************************************************************************)
MaxPairBindings == 2

\* The caller keeps the returned value and the resolver is free again.
KeepResult ==
    /\ pc = "returned"
    /\ last = NoLast
    /\ last' = [op |-> op, subject |-> subject, request |-> request,
                ret |-> ret, calls |-> calls]
    /\ op' = ""
    /\ pc' = "idle"
    /\ subject' = NoSubject
    /\ request' = NoRequest
    /\ groups' = <<>>
    /\ items' = <<>>
    /\ i' = 0
    /\ result' = NoResult
    /\ ret' = NoReturn
    /\ calls' = <<>>
    /\ UNCHANGED <<client, matchVars, parked>>

\* The arguments of the second call.
SecondCall(s, req) ==
    /\ s = last.subject
    /\ (last.op = "ResolvePermission") => (req = last.request)
    /\ (last.op = "ResolveAllPermissions") =>
         (req.Namespace = last.request.Namespace)

NextPair ==
    \/ \E crb \in ClusterRoleBindingPool :
         /\ last = NoLast
         /\ NumBindings(client) < MaxPairBindings
         /\ AddClusterRoleBinding(
              [crb EXCEPT !.Name = NextClusterRoleBindingName(client)])
    \/ \E rb \in RoleBindingPool :
         /\ last = NoLast
         /\ NumBindings(client) < MaxPairBindings
         /\ AddRoleBinding(
              [rb EXCEPT !.Name = NextRoleBindingName(client, rb.Namespace)])
    \/ \E s \in Subjects, req \in Requests :
         /\ (last # NoLast) => SecondCall(s, req)
         /\ ResolvePermission(s, req)
    \/ RPClusterRoleBinding
    \/ RPListRoleBindings
    \/ RPRoleBinding
    \/ RPReturn
    \/ \E s \in Subjects, namespace \in QueryNamespaces :
         /\ last = NoLast
         /\ ResolveAllPermissions(s, namespace)
    \/ RAPClusterRoleBinding
    \/ RAPListRoleBindings
    \/ RAPRoleBinding
    \/ RAPReturn
    \/ KeepResult

SpecPair == Init /\ [][NextPair]_vars

\* The data source answered the reads of this call as it answered the reads
\* of the call before: the same operations, in the same order, each with the
\* same outcome.
SameAnswers == calls = last.calls

\* C16: a second ResolvePermission for the same subject and request, on the
\* snapshot of the first and with the data source answering as before,
\* returns what the first returned: the same hard error, or a result with the
\* same Allowed, the same Grants in the same order and as many Errors.
C16_Idempotent ==
    (/\ pc = "returned"
     /\ op = "ResolvePermission"
     /\ last.op = "ResolvePermission"
     /\ SameAnswers) =>
        /\ ret.kind = last.ret.kind
        /\ ret.err = last.ret.err
        /\ (ret.kind = "result") =>
             /\ ret.val.Allowed = last.ret.val.Allowed
             /\ ret.val.Grants = last.ret.val.Grants
             /\ Len(ret.val.Errors) = Len(last.ret.val.Errors)

\* C16 witness: the second call returned, as the first did, two or more
\* grants and an error.
C16_Witness ==
    /\ pc = "returned"
    /\ op = "ResolvePermission"
    /\ last.op = "ResolvePermission"
    /\ SameAnswers
    /\ ret.kind = "result"
    /\ Len(ret.val.Grants) >= 2
    /\ Len(ret.val.Errors) >= 1
    /\ last.ret.val.Grants = ret.val.Grants

\* C17: on one snapshot and with the data source answering alike, the Grants
\* of ResolvePermission(subject, request) are the grants of
\* ResolveAllPermissions(subject, request.Namespace) whose rule satisfies
\* RuleMatches(rule, request), in the same order and each with the same
\* Binding, Role and Scope.
C17_FilteredTraversal ==
    (/\ pc = "returned"
     /\ op = "ResolvePermission"
     /\ ret.kind = "result"
     /\ last.op = "ResolveAllPermissions"
     /\ last.ret.kind = "grants"
     /\ SameAnswers) =>
        LET Hit(g) == RuleMatches(g.MatchingRule, request)
        IN  ret.val.Grants = SelectSeq(last.ret.val, Hit)

\* C17 witness: ResolveAllPermissions returned grants through both kinds of
\* binding, and ResolvePermission returned some of them and not all.
C17_Witness ==
    /\ pc = "returned"
    /\ op = "ResolvePermission"
    /\ ret.kind = "result"
    /\ last.op = "ResolveAllPermissions"
    /\ last.ret.kind = "grants"
    /\ SameAnswers
    /\ Len(ret.val.Grants) >= 2
    /\ Len(ret.val.Grants) < Len(last.ret.val)
    /\ \E g \in Range(ret.val.Grants) : g.Scope = ScopeNamespace
    /\ \E g \in Range(ret.val.Grants) : g.Scope = ScopeClusterWide

(***************************************************************************)
(* pkg/output/risky.go : the catalog of risky patterns and the analysis of *)
(* a grant list against it.                                                *)
(***************************************************************************)
RiskyPattern(category, severity, description, verbs, apiGroups, resources) ==
    [Category |-> category, Severity |-> severity, Description |-> description,
     Verbs |-> verbs, APIGroups |-> apiGroups, Resources |-> resources]

RiskyPatterns ==
    << RiskyPattern("secrets-access", "critical",
         "Access to Secrets can expose sensitive credentials, tokens, and keys",
         <<"get", "list", "watch", "*">>, <<"", "*">>, <<"secrets", "*">>),
       RiskyPattern("pod-exec", "critical",
         "Pod exec allows arbitrary command execution in containers",
         <<"create", "*">>, <<"", "*">>, <<"pods/exec", "*">>),
       RiskyPattern("pod-attach", "critical",
         "Pod attach allows connecting to running containers",
         <<"create", "*">>, <<"", "*">>, <<"pods/attach", "*">>),
       RiskyPattern("pod-create", "high",
         "Pod creation can lead to privilege escalation via hostPath, hostPID, etc.",
         <<"create", "*">>, <<"", "*">>, <<"pods", "*">>),
       RiskyPattern("impersonate", "critical",
         "Impersonation allows assuming other user/group identities",
         <<"impersonate", "*">>, <<"", "*">>,
         <<"users", "groups", "serviceaccounts", "*">>),
       RiskyPattern("nodes-proxy", "critical",
         "Node proxy access can execute commands on nodes via kubelet API",
         <<"get", "create", "*">>, <<"", "*">>, <<"nodes/proxy", "*">>),
       RiskyPattern("persistent-volume-create", "high",
         "PV creation with hostPath can access node filesystem",
         <<"create", "*">>, <<"", "*">>, <<"persistentvolumes", "*">>),
       RiskyPattern("cluster-admin", "critical",
         "Wildcard access grants full cluster control (cluster-admin equivalent)",
         <<"*">>, <<"*">>, <<"*">>),
       RiskyPattern("role-escalation", "critical",
         "Ability to create/modify roles can escalate privileges",
         <<"create", "update", "patch", "*">>,
         <<"rbac.authorization.k8s.io", "*">>, <<"roles", "clusterroles", "*">>),
       RiskyPattern("binding-escalation", "critical",
         "Ability to create/modify bindings can grant any permissions",
         <<"create", "update", "patch", "*">>,
         <<"rbac.authorization.k8s.io", "*">>,
         <<"rolebindings", "clusterrolebindings", "*">>),
       RiskyPattern("csr-approve", "high",
         "CSR approval can issue certificates for any identity",
         <<"approve", "*">>, <<"certificates.k8s.io", "*">>,
         <<"certificatesigningrequests/approval", "*">>),
       RiskyPattern("token-request", "high",
         "Token request can generate tokens for any service account",
         <<"create", "*">>, <<"", "*">>, <<"serviceaccounts/token", "*">>) >>

\* Faulty variant of matchesRiskyPattern: a wildcard among the pattern's verbs
\* counts as it does on the other two axes.
matchesRiskyPatternVerbWildcardEitherSide(rule, pattern) ==
    LET verbMatch ==
            \E pv \in 1..Len(pattern.Verbs), rv \in 1..Len(rule.Verbs) :
                \/ rule.Verbs[rv] = pattern.Verbs[pv]
                \/ rule.Verbs[rv] = "*"
                \/ pattern.Verbs[pv] = "*"
        groupMatch ==
            \E pg \in 1..Len(pattern.APIGroups), rg \in 1..Len(rule.APIGroups) :
                \/ rule.APIGroups[rg] = pattern.APIGroups[pg]
                \/ rule.APIGroups[rg] = "*"
                \/ pattern.APIGroups[pg] = "*"
        resourceMatch ==
            \E pr \in 1..Len(pattern.Resources), rr \in 1..Len(rule.Resources) :
                \/ rule.Resources[rr] = pattern.Resources[pr]
                \/ rule.Resources[rr] = "*"
                \/ pattern.Resources[pr] = "*"
    IN  verbMatch /\ groupMatch /\ resourceMatch

\* Each nested pair of loops with a "break" on the first hit is an
\* existential over the pairs of positions.  The verb loop compares the
\* rule's verb with "*"; the other two compare either side with "*".
matchesRiskyPattern(rule, pattern) ==
    LET verbMatch ==
            \E pv \in 1..Len(pattern.Verbs), rv \in 1..Len(rule.Verbs) :
                \/ rule.Verbs[rv] = pattern.Verbs[pv]
                \/ rule.Verbs[rv] = "*"
        groupMatch ==
            \E pg \in 1..Len(pattern.APIGroups), rg \in 1..Len(rule.APIGroups) :
                \/ rule.APIGroups[rg] = pattern.APIGroups[pg]
                \/ rule.APIGroups[rg] = "*"
                \/ pattern.APIGroups[pg] = "*"
        resourceMatch ==
            \E pr \in 1..Len(pattern.Resources), rr \in 1..Len(rule.Resources) :
                \/ rule.Resources[rr] = pattern.Resources[pr]
                \/ rule.Resources[rr] = "*"
                \/ pattern.Resources[pr] = "*"
    IN  IF ~verbMatch THEN FALSE
        ELSE IF ~groupMatch THEN FALSE
        ELSE resourceMatch

NoRisks == [risks |-> <<>>, seenCategories |-> {}]

\* Faulty variant of AddRisk: every hit opens an entry of its own.
AddRiskAlwaysNew(acc, pattern, grant) ==
    [risks |-> Append(acc.risks,
                 [Category |-> pattern.Category,
                  Description |-> pattern.Description,
                  Severity |-> pattern.Severity,
                  Grants |-> <<grant>>]),
     seenCategories |-> acc.seenCategories \cup {pattern.Category}]

\* Lines 130-146: the grant goes into a new entry for a category not seen
\* yet, and at the end of the Grants of the first entry of its category
\* otherwise.
AddRisk(acc, pattern, grant) ==
    IF pattern.Category \notin acc.seenCategories
    THEN [risks |-> Append(acc.risks,
                      [Category |-> pattern.Category,
                       Description |-> pattern.Description,
                       Severity |-> pattern.Severity,
                       Grants |-> <<grant>>]),
          seenCategories |-> acc.seenCategories \cup {pattern.Category}]
    ELSE LET same == {k \in 1..Len(acc.risks) :
                        acc.risks[k].Category = pattern.Category}
         IN  IF same = {} THEN acc
             ELSE LET first == CHOOSE k \in same : \A m \in same : k <= m
                  IN  [acc EXCEPT !.risks[first].Grants = Append(@, grant)]

\* Faulty variant of AnalyzePatterns: the loop over the catalog stops at the
\* first pattern the grant matches.
RECURSIVE AnalyzePatternsFirstHitOnly(_, _, _)
AnalyzePatternsFirstHitOnly(acc, grant, p) ==
    IF p > Len(RiskyPatterns) THEN acc
    ELSE IF matchesRiskyPattern(grant.MatchingRule, RiskyPatterns[p])
         THEN AddRisk(acc, RiskyPatterns[p], grant)
    ELSE AnalyzePatternsFirstHitOnly(acc, grant, p + 1)

\* Lines 128-148: the loop over the catalog, from its position p on.
RECURSIVE AnalyzePatterns(_, _, _)
AnalyzePatterns(acc, grant, p) ==
    IF p > Len(RiskyPatterns) THEN acc
    ELSE AnalyzePatterns(
           IF matchesRiskyPattern(grant.MatchingRule, RiskyPatterns[p])
           THEN AddRisk(acc, RiskyPatterns[p], grant)
           ELSE acc,
           grant, p + 1)

\* Lines 127-149: the loop over the grants, from its position g on.
RECURSIVE AnalyzeGrants(_, _, _)
AnalyzeGrants(acc, grants, g) ==
    IF g > Len(grants) THEN acc
    ELSE AnalyzeGrants(AnalyzePatterns(acc, grants[g], 1), grants, g + 1)

AnalyzeRiskyPermissions(grants) == AnalyzeGrants(NoRisks, grants, 1).risks

(***************************************************************************)
(* The risk analysis applied to drawn arguments: matchesRiskyPattern to a  *)
(* rule and a pattern, AnalyzeRiskyPermissions to a list of grants.        *)
(***************************************************************************)
\* Rules as the API server stores them: a list may be empty (a rule for
\* non-resource URLs has no API groups and no resources).
RiskRules ==
    { [Verbs |-> v, APIGroups |-> g, Resources |-> r, ResourceNames |-> <<>>] :
        v \in { <<>>, <<"get">>, <<"*">>, <<"delete">>, <<"create", "delete">> },
        g \in { <<>>, <<"">>, <<"*">>, <<"apps">>, <<"rbac.authorization.k8s.io">> },
        r \in { <<>>, <<"pods">>, <<"*">>, <<"secrets">>, <<"pods/exec", "roles">> } }

\* Patterns: the catalog's, and patterns with and without wildcards.
RiskPatterns ==
    Range(RiskyPatterns) \cup
    { RiskyPattern("drawn", "high", "", v, g, r) :
        v \in { <<>>, <<"get">>, <<"create", "*">>, <<"get", "list">> },
        g \in { <<>>, <<"">>, <<"", "*">>, <<"apps">> },
        r \in { <<>>, <<"secrets">>, <<"secrets", "*">>, <<"pods">> } }

MaxGrants == 3

\* Grants as the resolver returns them.
RiskGrants ==
    { ClusterGrant([Name |-> "crb-admin"], [Name |-> "cluster-admin"],
                   [Verbs |-> <<"*">>, APIGroups |-> <<"*">>,
                    Resources |-> <<"*">>, ResourceNames |-> <<>>]),
      ClusterGrant([Name |-> "crb-secrets"], [Name |-> "secret-reader"],
                   Rule(<<"get", "list">>, <<"secrets">>)),
      ClusterGrant([Name |-> "crb-health"], [Name |-> "health"],
                   [Verbs |-> <<"get">>, APIGroups |-> <<>>,
                    Resources |-> <<>>, ResourceNames |-> <<>>]),
      NamespaceGrant([Name |-> "rb-deploy", Namespace |-> "default"],
                     [Kind |-> "Role", Name |-> "deployer",
                      Namespace |-> "default"],
                     Rule(<<"create">>, <<"pods">>)),
      NamespaceGrant([Name |-> "rb-deploy2", Namespace |-> "default"],
                     [Kind |-> "Role", Name |-> "deployer",
                      Namespace |-> "default"],
                     Rule(<<"create">>, <<"pods">>)),
      NamespaceGrant([Name |-> "rb-clean", Namespace |-> "default"],
                     [Kind |-> "Role", Name |-> "cleaner",
                      Namespace |-> "default"],
                     Rule(<<"delete">>, <<"configmaps">>)),
      NamespaceGrant([Name |-> "rb-su", Namespace |-> "default"],
                     [Kind |-> "ClusterRole", Name |-> "impersonator",
                      Namespace |-> ""],
                     Rule(<<"impersonate">>, <<"users">>)),
      NamespaceGrant([Name |-> "rb-view", Namespace |-> "default"],
                     [Kind |-> "Role", Name |-> "pod-viewer",
                      Namespace |-> "default"],
                     Rule(<<"get">>, <<"pods">>)),
      NamespaceGrant([Name |-> "rb-config", Namespace |-> "default"],
                     [Kind |-> "Role", Name |-> "config-owner",
                      Namespace |-> "default"],
                     Rule(<<"*">>, <<"configmaps">>)) }

RiskGrantLists == UNION { [1..n -> RiskGrants] : n \in 0..MaxGrants }

InitRisk ==
    /\ client = [Roles |-> FixtureRoles,
                 ClusterRoles |-> FixtureClusterRoles,
                 RoleBindings |-> <<>>,
                 ClusterRoleBindings |-> <<>>]
    /\ IdleCall
    /\ \/ \E r \in RiskRules, p \in RiskPatterns : mIn = [rule |-> r, pattern |-> p]
       \/ \E g \in RiskGrantLists : mIn = [grants |-> g]
    /\ mOut = NoMatchOut
    /\ last = NoLast
    /\ parked = NoContext

ApplyMatchesRiskyPattern ==
    /\ mOut.fn = ""
    /\ "rule" \in DOMAIN mIn
    /\ mOut' = [fn |-> "matchesRiskyPattern",
                ret |-> matchesRiskyPattern(mIn.rule, mIn.pattern)]
    /\ UNCHANGED <<client, callVars, mIn, last, parked>>

ApplyAnalyzeRiskyPermissions ==
    /\ mOut.fn = ""
    /\ "grants" \in DOMAIN mIn
    /\ mOut' = [fn |-> "AnalyzeRiskyPermissions",
                ret |-> AnalyzeRiskyPermissions(mIn.grants)]
    /\ UNCHANGED <<client, callVars, mIn, last, parked>>

NextRisk ==
    \/ ApplyMatchesRiskyPattern
    \/ ApplyAnalyzeRiskyPermissions

SpecRisk == InitRisk /\ [][NextRisk]_vars

\* Two lists overlap when either contains the wildcard or some element
\* occurs in both.
Overlap(ruleList, patternList) ==
    \/ "*" \in Range(ruleList)
    \/ "*" \in Range(patternList)
    \/ Range(ruleList) \cap Range(patternList) # {}

\* C18 as stated: matchesRiskyPattern(rule, signature) is true exactly when
\* rule and signature overlap on verbs, on API groups and on resources.
C18_AsStated ==
    (mOut.fn = "matchesRiskyPattern") =>
        (mOut.ret <=>
            /\ Overlap(mIn.rule.Verbs, mIn.pattern.Verbs)
            /\ Overlap(mIn.rule.APIGroups, mIn.pattern.APIGroups)
            /\ Overlap(mIn.rule.Resources, mIn.pattern.Resources))

\* C18: matchesRiskyPattern(rule, signature) is true exactly when, on each of
\* the three axes verbs, API groups and resources, the rule's list and the
\* signature's list are both non-empty and overlap.  On API groups and
\* resources two lists overlap when either contains the wildcard or some
\* element occurs in both; on verbs they overlap when the rule's list
\* contains the wildcard or some element occurs in both, and a wildcard in
\* the signature's verbs alone does not count.
C18_SignatureOverlap ==
    (mOut.fn = "matchesRiskyPattern") =>
        LET rule == mIn.rule
            sig == mIn.pattern
            NonEmpty(a, b) == Len(a) > 0 /\ Len(b) > 0
        IN  mOut.ret <=>
              /\ NonEmpty(rule.Verbs, sig.Verbs)
              /\ \/ "*" \in Range(rule.Verbs)
                 \/ Range(rule.Verbs) \cap Range(sig.Verbs) # {}
              /\ NonEmpty(rule.APIGroups, sig.APIGroups)
              /\ Overlap(rule.APIGroups, sig.APIGroups)
              /\ NonEmpty(rule.Resources, sig.Resources)
              /\ Overlap(rule.Resources, sig.Resources)

\* C18 witness: a rule that may only delete is held against a signature whose
\* verbs contain the wildcard, and does not match it.
C18_Witness ==
    /\ mOut.fn = "matchesRiskyPattern"
    /\ ~mOut.ret
    /\ mIn.rule.Verbs = <<"delete">>
    /\ mIn.rule.APIGroups = <<"">>
    /\ mIn.rule.Resources = <<"secrets">>
    /\ mIn.pattern.Category = "secrets-access"

\* The entry of the output with the given category, if any.
RisksOf(out, category) ==
    {k \in 1..Len(out) : out[k].Category = category}

IsFullWildcard(rule) ==
    rule.Verbs = <<"*">> /\ rule.APIGroups = <<"*">> /\ rule.Resources = <<"*">>

\* C19: for every grant list that contains a grant whose rule has
\* verbs = [*], apiGroups = [*] and resources = [*], the output of
\* AnalyzeRiskyPermissions has an entry of category cluster-admin and
\* severity critical whose Grants contain that grant.
C19_ClusterAdmin ==
    (mOut.fn = "AnalyzeRiskyPermissions") =>
        \A g \in 1..Len(mIn.grants) :
            IsFullWildcard(mIn.grants[g].MatchingRule) =>
                \E k \in RisksOf(mOut.ret, "cluster-admin") :
                    /\ mOut.ret[k].Severity = "critical"
                    /\ mIn.grants[g] \in Range(mOut.ret[k].Grants)

\* C19 witness: the full-wildcard grant comes last in a list of three and is
\* reported under cluster-admin.
C19_Witness ==
    /\ mOut.fn = "AnalyzeRiskyPermissions"
    /\ Len(mIn.grants) = 3
    /\ IsFullWildcard(mIn.grants[3].MatchingRule)
    /\ ~IsFullWildcard(mIn.grants[1].MatchingRule)
    /\ \E k \in RisksOf(mOut.ret, "cluster-admin") :
         mOut.ret[k].Grants = <<mIn.grants[3]>>

\* The positions of the grants whose rule matches the pattern.
MatchingGrants(grants, pattern) ==
    {g \in 1..Len(grants) : matchesRiskyPattern(grants[g].MatchingRule, pattern)}

\* The position in the catalog of the first pattern of a category.
CatalogPosition(category) ==
    CHOOSE p \in 1..Len(RiskyPatterns) :
        /\ RiskyPatterns[p].Category = category
        /\ \A q \in 1..(p - 1) : RiskyPatterns[q].Category # category

\* The position of the first grant that matches the pattern.
FirstMatch(grants, pattern) ==
    CHOOSE g \in MatchingGrants(grants, pattern) :
        \A h \in MatchingGrants(grants, pattern) : g <= h

\* C20: the output of AnalyzeRiskyPermissions has each category at most once
\* and exactly the categories some grant matches; the Grants of a category
\* are the input grants whose rule matches its signature, each once and in
\* input order; Severity and Description are the signature's; and the
\* categories stand in order of first match: by the position of the first
\* matching grant, then by the position in the catalog.
C20_RiskReport ==
    (mOut.fn = "AnalyzeRiskyPermissions") =>
        LET grants == mIn.grants
            out == mOut.ret
            sigOf(k) == RiskyPatterns[CatalogPosition(out[k].Category)]
        IN  /\ \A a, b \in 1..Len(out) :
                 (a # b) => (out[a].Category # out[b].Category)
            /\ \A p \in 1..Len(RiskyPatterns) :
                 (MatchingGrants(grants, RiskyPatterns[p]) # {}) <=>
                 (RisksOf(out, RiskyPatterns[p].Category) # {})
            /\ \A k \in 1..Len(out) :
                 LET Hit(g) == matchesRiskyPattern(g.MatchingRule, sigOf(k))
                 IN  /\ out[k].Grants = SelectSeq(grants, Hit)
                     /\ out[k].Severity = sigOf(k).Severity
                     /\ out[k].Description = sigOf(k).Description
            /\ \A a, b \in 1..Len(out) :
                 (a < b) =>
                   LET fa == FirstMatch(grants, sigOf(a))
                       fb == FirstMatch(grants, sigOf(b))
                   IN  \/ fa < fb
                       \/ /\ fa = fb
                          /\ CatalogPosition(out[a].Category)
                               < CatalogPosition(out[b].Category)

\* C20 witness: three grants, the first and the third of one category and the
\* second of an earlier category of the catalog, which comes later in the
\* output.
C20_Witness ==
    /\ mOut.fn = "AnalyzeRiskyPermissions"
    /\ Len(mIn.grants) = 3
    /\ \E a, b \in 1..Len(mOut.ret) :
         /\ a < b
         /\ CatalogPosition(mOut.ret[a].Category)
              > CatalogPosition(mOut.ret[b].Category)
         /\ mOut.ret[a].Grants = <<mIn.grants[1], mIn.grants[3]>>
         /\ mOut.ret[b].Grants = <<mIn.grants[2]>>

\* The cancellation signal fired during the call in progress: from some read
\* of the call on, every read of the data source failed.
CancelledAt(j) == \A k \in j..Len(calls) : ~calls[k].ok
Cancelled == \E j \in 1..Len(calls) : CancelledAt(j)

\* C21: a ResolvePermission call during which the cancellation signal fires,
\* so that every later list or get fails, returns a hard error and no
\* PermissionResult, also when the signal arrives after
\* ListClusterRoleBindings has succeeded on a request with an empty
\* namespace.
C21_CancellationIsHardError ==
    (pc = "returned" /\ op = "ResolvePermission" /\ Cancelled) =>
        ret.kind = "error"

\* The bindings of a list that have an entry matching the call's subject.
MatchingBindings(list) ==
    LET Hit(b) == \E e \in Range(b.Subjects) :
                    SubjectMatchesWithGroups(e, subject, GetImplicitGroups(subject))
    IN  SelectSeq(list, Hit)

\* A read of the log without its outcome.
Read(operation, namespace, name, bindingKind, bindingName) ==
    [op |-> operation, ns |-> namespace, name |-> name,
     bindingKind |-> bindingKind, binding |-> bindingName]

ReadOf(call) ==
    Read(call.op, call.ns, call.name, call.bindingKind, call.binding)

\* The get that resolves the RoleRef of a binding of the given kind.
RoleRead(kind, b) ==
    IF kind = "ClusterRoleBinding" \/ b.RoleRef.Kind = "ClusterRole"
    THEN Read("GetClusterRole", "", b.RoleRef.Name, kind, b.Name)
    ELSE Read("GetRole", request.Namespace, b.RoleRef.Name, kind, b.Name)

RoleReads(kind) ==
    LET m == MatchingBindings(ConsultedList(kind))
    IN  [k \in 1..Len(m) |-> RoleRead(kind, m[k])]

\* The reads of a call that no failed list cuts short.
ExpectedReads ==
    <<Read("ListClusterRoleBindings", "", "", "", "")>>
    \o RoleReads("ClusterRoleBinding")
    \o (IF request.Namespace # ""
        THEN <<Read("ListRoleBindings", request.Namespace, "", "", "")>>
             \o RoleReads("RoleBinding")
        ELSE <<>>)

\* The log is a prefix of the expected reads.
ReadsInOrder ==
    /\ Len(calls) <= Len(ExpectedReads)
    /\ \A j \in 1..Len(calls) : ReadOf(calls[j]) = ExpectedReads[j]

\* C22: the data-source operations of a ResolvePermission call are reads, in
\* this order: ListClusterRoleBindings once; one GetClusterRole per
\* subject-matching ClusterRoleBinding in list order; only for a non-empty
\* request.Namespace, ListRoleBindings once; one GetRole or GetClusterRole per
\* subject-matching RoleBinding in list order.  At every point of the call
\* the operations so far are a prefix of that sequence (so no get precedes
\* the list of its binding and a role referenced twice is fetched twice);
\* when the call returns the sequence is complete unless a failed list cut
\* it short; and no step of a call changes the data source's contents.
C22_ReadSequence ==
    [][ /\ (pc # "idle") => (client' = client)
        /\ (op = "ResolvePermission") =>
             /\ ReadsInOrder
             /\ (pc = "returned" /\ FailedLists = {}) =>
                  (Len(calls) = Len(ExpectedReads))
             /\ \A j \in FailedLists : j = Len(calls) /\ pc = "returned"
      ]_vars

\* C22 witness: a call returned after both lists and three gets, two of them
\* of the same ClusterRole for different bindings.
C22_Witness ==
    /\ op = "ResolvePermission"
    /\ pc = "returned"
    /\ Len(calls) = 5
    /\ \E j, k \in GetCalls :
         /\ j < k
         /\ calls[j].op = "GetClusterRole"
         /\ calls[k].op = "GetClusterRole"
         /\ calls[j].name = calls[k].name
         /\ calls[j].binding # calls[k].binding
         /\ calls[j].ok /\ calls[k].ok

(***************************************************************************)
(* Two goroutines call ResolvePermission on one Resolver.  The variables   *)
(* of a call (the locals of lines 58-66 and what follows) belong to the    *)
(* goroutine that runs; those of the other are parked.  The Resolver       *)
(* itself holds the client and nothing else (lines 13-21).                 *)
(***************************************************************************)
MaxConcBindings == 1

\* The locals of the running call.
Context ==
    [op |-> op, pc |-> pc, subject |-> subject, request |-> request,
     groups |-> groups, items |-> items, i |-> i, result |-> result,
     ret |-> ret, calls |-> calls]

\* Faulty variant of Yield: the result under construction belongs to the
\* Resolver and is shared by the calls.
YieldSharingResult ==
    /\ pc # "idle" \/ parked.pc # "idle"
    /\ parked' = Context
    /\ op' = parked.op
    /\ pc' = parked.pc
    /\ subject' = parked.subject
    /\ request' = parked.request
    /\ groups' = parked.groups
    /\ items' = parked.items
    /\ i' = parked.i
    /\ result' = result
    /\ ret' = parked.ret
    /\ calls' = parked.calls
    /\ UNCHANGED <<client, matchVars, last>>

\* The scheduler runs the other goroutine: the running call is parked with
\* its locals and the parked one resumes with its own.
Yield ==
    /\ pc # "idle" \/ parked.pc # "idle"
    /\ parked' = Context
    /\ op' = parked.op
    /\ pc' = parked.pc
    /\ subject' = parked.subject
    /\ request' = parked.request
    /\ groups' = parked.groups
    /\ items' = parked.items
    /\ i' = parked.i
    /\ result' = parked.result
    /\ ret' = parked.ret
    /\ calls' = parked.calls
    /\ UNCHANGED <<client, matchVars, last>>

NextConc ==
    \/ \E crb \in ClusterRoleBindingPool :
         /\ parked = NoContext
         /\ NumBindings(client) < MaxConcBindings
         /\ AddClusterRoleBinding(
              [crb EXCEPT !.Name = NextClusterRoleBindingName(client)])
    \/ \E rb \in RoleBindingPool :
         /\ parked = NoContext
         /\ NumBindings(client) < MaxConcBindings
         /\ AddRoleBinding(
              [rb EXCEPT !.Name = NextRoleBindingName(client, rb.Namespace)])
    \/ \E s \in Subjects, req \in Requests : ResolvePermission(s, req)
    \/ RPClusterRoleBinding
    \/ RPListRoleBindings
    \/ RPRoleBinding
    \/ RPReturn
    \/ Yield

SpecConc == Init /\ [][NextConc]_vars

\* The binding a get of the log was issued for.
BindingOfRead(call) ==
    LET list == ConsultedList(call.bindingKind)
    IN  list[CHOOSE k \in 1..Len(list) : list[k].Name = call.binding]

\* What the call running alone appends to Grants after a get: nothing when
\* the get failed, and otherwise one grant per rule of the role fetched that
\* matches the call's own request, tagged with the call's own binding.
GrantsOfRead(call) ==
    IF call.op \notin {"GetRole", "GetClusterRole"} \/ ~call.ok THEN <<>>
    ELSE LET b == BindingOfRead(call)
         IN  IF call.bindingKind = "ClusterRoleBinding"
             THEN LET role == GetClusterRole(client, call.name).val
                  IN  ClusterGrants(b, role, MatchingRules(role.Rules, request))
             ELSE IF call.op = "GetClusterRole"
             THEN LET role == GetClusterRole(client, call.name).val
                  IN  NamespaceGrants(b, ClusterRoleInfo(role),
                                      MatchingRules(role.Rules, request))
             ELSE LET role == GetRole(client, call.ns, call.name).val
                  IN  NamespaceGrants(b, RoleInfo(role),
                                      MatchingRules(role.Rules, request))

\* What the call running alone appends to Errors after a get.
ErrorsOfRead(call) ==
    IF call.op = "GetClusterRole" /\ ~call.ok
    THEN <<"failed to get cluster role " \o call.name>>
    ELSE IF call.op = "GetRole" /\ ~call.ok
    THEN <<"failed to get role " \o call.name \o " in namespace " \o call.ns>>
    ELSE <<>>

RECURSIVE Flatten(_)
Flatten(seqs) ==
    IF Len(seqs) = 0 THEN <<>> ELSE Head(seqs) \o Flatten(Tail(seqs))

\* The PermissionResult of the running call had it run alone on the snapshot
\* with the data source answering its reads as the log says.
AloneResult ==
    LET grants == Flatten([j \in 1..Len(calls) |-> GrantsOfRead(calls[j])])
        errors == Flatten([j \in 1..Len(calls) |-> ErrorsOfRead(calls[j])])
    IN  [Request |-> request, Subject |-> subject, Allowed |-> Len(grants) > 0,
         Grants |-> grants, Errors |-> errors]

\* Both goroutines have a call under way or returned.
BothCalled == op = "ResolvePermission" /\ parked.op = "ResolvePermission"

\* C23: with two ResolvePermission calls interleaved on one Resolver and an
\* unchanging data source, each call reads what it would read alone and
\* returns what it would return alone: a hard error exactly when one of its
\* own lists failed, and otherwise the PermissionResult of its own subject
\* and request, whose Grants and Errors come from its own reads and from no
\* read of the other call.
C23_NoInterference ==
    (BothCalled /\ pc = "returned") =>
        /\ ReadsInOrder
        /\ (ret.kind = "error") <=> (FailedLists # {})
        /\ (ret.kind = "result") => (ret.val = AloneResult)

\* C23 witness: both calls have returned a result, the running one with
\* grants and the other one with errors, and the two results differ in both.
C23_Witness ==
    /\ BothCalled
    /\ pc = "returned"
    /\ parked.pc = "returned"
    /\ ret.kind = "result"
    /\ parked.ret.kind = "result"
    /\ Len(ret.val.Grants) > 0
    /\ Len(parked.ret.val.Errors) > 0
    /\ ret.val.Grants # parked.ret.val.Grants
    /\ ret.val.Errors # parked.ret.val.Errors

\* The binding has a Group entry named in the subject's own Groups.
NamesExplicitGroup(b) ==
    \E e \in Range(BindingAt(b).Subjects) :
        e.Kind = "Group" /\ e.Name \in Range(subject.Groups)

\* C24: the groups attached to the subject are used in resolution.  In a
\* ResolvePermission result, every consulted binding that has a Group entry
\* named in Subject.Groups had its role fetched, and when the fetch
\* succeeded each rule of the role that matches the request appears in
\* Grants for that binding.
C24_ExplicitGroupsUsed ==
    RPResult =>
        \A b \in Consulted :
            NamesExplicitGroup(b) =>
                /\ GetsFor(b) # {}
                /\ FetchSucceeded(b) =>
                     \A r \in 1..Len(ReferencedRole(b).val.Rules) :
                        RuleMatches(ReferencedRole(b).val.Rules[r], request) =>
                            \E g \in Range(ReturnedGrants) :
                                ChainOf(g) = ChainOfPair(<<b, r>>)

\* The entries of the binding's subject list that match the call's subject.
MatchingEntries(b) ==
    {k \in 1..Len(BindingAt(b).Subjects) :
        SubjectMatchesWithGroups(BindingAt(b).Subjects[k], subject,
                                 GetImplicitGroups(subject))}

\* The grants of the result that were reached through the binding.
GrantsThrough(b) ==
    {k \in 1..Len(ReturnedGrants) :
        /\ ReturnedGrants[k].Binding.Kind = b[1]
        /\ ReturnedGrants[k].Binding.Name = BindingAt(b).Name}

\* The rules of the binding's role that match the request, by position.
MatchingRulePositions(b) ==
    {r \in 1..Len(ReferencedRole(b).val.Rules) :
        RuleMatches(ReferencedRole(b).val.Rules[r], request)}

\* C25: however many entries of a binding's subject list match the subject,
\* the binding causes exactly one role fetch, and when the fetch succeeds
\* the result holds for that binding exactly one grant per rule of the role
\* that matches the request (and none when it fails); a binding with no
\* matching entry causes no fetch and no grant.
C25_OncePerBinding ==
    RPResult =>
        \A b \in Consulted :
            IF MatchingEntries(b) = {}
            THEN GetsFor(b) = {} /\ GrantsThrough(b) = {}
            ELSE /\ Cardinality(GetsFor(b)) = 1
                 /\ Cardinality(GrantsThrough(b)) =
                      IF FetchSucceeded(b)
                      THEN Cardinality(MatchingRulePositions(b))
                      ELSE 0

\* C25 witness: a RoleBinding matches the subject through two of its entries
\* and is reported once.
C25_Witness ==
    /\ RPResult
    /\ \E b \in Consulted :
         /\ b[1] = "RoleBinding"
         /\ Cardinality(MatchingEntries(b)) = 2
         /\ Cardinality(GetsFor(b)) = 1
         /\ Cardinality(GrantsThrough(b)) = 1

\* The objects of the snapshot a RoleRef of the given kind and name denotes
\* for a call in the given namespace.
Referenced(kind, namespace, name) ==
    IF kind = "ClusterRole"
    THEN {cr \in Range(client.ClusterRoles) : cr.Name = name}
    ELSE IF namespace \in DOMAIN client.Roles
    THEN {role \in Range(client.Roles[namespace]) : role.Name = name}
    ELSE {}

\* C26: for a subject-matching RoleBinding whose RoleRef has kind ClusterRole
\* the call fetches the ClusterRole of that name and its grants carry
\* Role.Kind = ClusterRole; for kind Role it fetches the Role of that name in
\* request.Namespace and its grants carry Role.Kind = Role.  The rule of
\* every grant is a rule of an object the RoleRef denotes: an object of the
\* other kind with the same name, or a Role of that name in another
\* namespace, contributes nothing, and when the RoleRef denotes no object
\* the binding has no grant.
C26_RoleRefKind ==
    RPResult =>
        \A b \in Consulted :
            (b[1] = "RoleBinding" /\ MatchingEntries(b) # {}) =>
                LET ref == BindingAt(b).RoleRef
                    objs == Referenced(ref.Kind, request.Namespace, ref.Name)
                IN  /\ \A j \in GetsFor(b) :
                         /\ calls[j].name = ref.Name
                         /\ IF ref.Kind = "ClusterRole"
                            THEN calls[j].op = "GetClusterRole"
                            ELSE /\ calls[j].op = "GetRole"
                                 /\ calls[j].ns = request.Namespace
                    /\ \A k \in GrantsThrough(b) :
                         /\ ReturnedGrants[k].Role.Kind = ref.Kind
                         /\ ReturnedGrants[k].Role.Name = ref.Name
                         /\ \E o \in objs :
                              /\ ReturnedGrants[k].MatchingRule \in Range(o.Rules)
                              /\ ReturnedGrants[k].Role.Namespace = o.Namespace
                    /\ (objs = {}) => (GrantsThrough(b) = {})

\* C26 witness: a RoleBinding references the Role "shared", a ClusterRole of
\* that name exists with other rules, and the grant is the Role's.
C26_Witness ==
    /\ RPResult
    /\ \E b \in Consulted :
         /\ b[1] = "RoleBinding"
         /\ BindingAt(b).RoleRef = [Kind |-> "Role", Name |-> "shared"]
         /\ Referenced("ClusterRole", "", "shared") # {}
         /\ \E k \in GrantsThrough(b) :
              /\ ReturnedGrants[k].Role.Kind = "Role"
              /\ ReturnedGrants[k].MatchingRule.Verbs = <<"delete">>

\* The failures a returned call hands to its caller: the Errors of a
\* PermissionResult, or the error value returned beside the grants.
FailuresReported ==
    IF ret.kind = "result" THEN Len(ret.val.Errors)
    ELSE IF ret.err # "" THEN 1
    ELSE 0

\* The gets of the log that failed.
FailedGets ==
    {j \in 1..Len(calls) :
        calls[j].op \in {"GetRole", "GetClusterRole"} /\ ~calls[j].ok}

\* C27: when the get of a referenced role fails for a subject-matching
\* binding during ResolveAllPermissions and every list succeeds, the call
\* raises no hard error, returns the rules reached through the other
\* matching bindings, and hands the failure to its caller.
C27_FailedGetRecorded ==
    (/\ op = "ResolveAllPermissions"
     /\ pc = "returned"
     /\ FailedGets # {}
     /\ \A j \in 1..Len(calls) :
          calls[j].op \in {"ListClusterRoleBindings", "ListRoleBindings"}
            => calls[j].ok)
        => /\ ret.kind = "grants"
           /\ FailuresReported > 0

\* The resources and API groups a signature names, its wildcard aside.
Named(list) == Range(list) \ {"*"}

\* The rule covers the capability of the pattern: its resources contain a
\* resource the pattern names or the wildcard, and its API groups contain a
\* group the pattern names or the wildcard.
CoversCapability(rule, pattern) ==
    /\ Range(rule.Resources) \cap (Named(pattern.Resources) \cup {"*"}) # {}
    /\ Range(rule.APIGroups) \cap (Named(pattern.APIGroups) \cup {"*"}) # {}

\* C28: every grant AnalyzeRiskyPermissions reports under a category has a
\* rule that covers the capability of a catalog pattern of that category.
C28_CategoryCovered ==
    (mOut.fn = "AnalyzeRiskyPermissions") =>
        \A k \in 1..Len(mOut.ret) :
            \A g \in Range(mOut.ret[k].Grants) :
                \E p \in Range(RiskyPatterns) :
                    /\ p.Category = mOut.ret[k].Category
                    /\ CoversCapability(g.MatchingRule, p)

(***************************************************************************)
(* pkg/cmd/cani/options.go : the RESOURCE argument.  The options are a     *)
(* record of the fields of RbacWhyOptions the request is built from.       *)
(***************************************************************************)
\* NewRbacWhyOptions: the fields start at their zero values.
NewRbacWhyOptions ==
    [Verb |-> "", Resource |-> "", Subresource |-> "", APIGroup |-> "",
     Namespace |-> ""]

\* strings.Index(s, sep) for a separator of one byte: the offset of its
\* first occurrence, -1 when there is none.
Index(s, sep) ==
    LET at == {k \in 1..Len(s) : SubSeq(s, k, k) = sep}
    IN  IF at = {} THEN -1
        ELSE (CHOOSE m \in at : \A n \in at : m <= n) - 1

\* s[:idx] and s[idx+1:].
Before(s, idx) == SubSeq(s, 1, idx)
After(s, idx) == SubSeq(s, idx + 2, Len(s))

\* Lines 377-398.
parseResource(o, arg) ==
    LET idx == Index(arg, "/")
        o1 == IF idx # -1
              THEN [o EXCEPT !.Resource = Before(arg, idx),
                             !.Subresource = After(arg, idx)]
              ELSE [o EXCEPT !.Resource = arg]
        resource == IF idx # -1 THEN o1.Resource ELSE arg
        dot == Index(resource, ".")
    IN  IF dot # -1
        THEN LET group == After(resource, dot)
                 vIdx == Index(group, "/")
             IN  [o1 EXCEPT !.Resource = Before(resource, dot),
                            !.APIGroup = IF vIdx # -1 THEN Before(group, vIdx)
                                         ELSE group]
        ELSE o1

\* Lines 429-437.
ToPermissionRequest(o) ==
    [Verb |-> o.Verb, APIGroup |-> o.APIGroup, Resource |-> o.Resource,
     Subresource |-> o.Subresource, ResourceName |-> "",
     Namespace |-> o.Namespace]

\* RESOURCE arguments: a name, optionally "." and a group, optionally "/"
\* and a subresource or version.
ResourceNamePool == {"pods", "deployments"}
ResourceGroupPool == {"", "apps", "batch"}
ResourceTailPool == {"", "exec", "log", "v1"}
JoinResource(name, group, tail) ==
    name \o (IF group = "" THEN "" ELSE "." \o group)
         \o (IF tail = "" THEN "" ELSE "/" \o tail)

InitResource ==
    /\ client = [Roles |-> FixtureRoles,
                 ClusterRoles |-> FixtureClusterRoles,
                 RoleBindings |-> <<>>,
                 ClusterRoleBindings |-> <<>>]
    /\ IdleCall
    /\ \E n \in ResourceNamePool, g \in ResourceGroupPool, t \in ResourceTailPool,
          v \in {"get", "create"}, ns \in {"", "default"} :
         mIn = [name |-> n, group |-> g, tail |-> t, arg |-> JoinResource(n, g, t),
                o |-> [NewRbacWhyOptions EXCEPT !.Verb = v, !.Namespace = ns]]
    /\ mOut = NoMatchOut
    /\ last = NoLast
    /\ parked = NoContext

\* Complete, lines 82-88.
ApplyParseResource ==
    /\ mOut.fn = ""
    /\ mOut' = [fn |-> "parseResource", ret |-> parseResource(mIn.o, mIn.arg)]
    /\ UNCHANGED <<client, callVars, mIn, last, parked>>

\* Run, cani.go line 143.
ApplyToPermissionRequest ==
    /\ mOut.fn = "parseResource"
    /\ mOut' = [fn |-> "ToPermissionRequest", ret |-> ToPermissionRequest(mOut.ret)]
    /\ UNCHANGED <<client, callVars, mIn, last, parked>>

NextResource == ApplyParseResource \/ ApplyToPermissionRequest

SpecResource == InitResource /\ [][NextResource]_vars

\* C29: parseResource splits the RESOURCE argument as its comments say.
\* "name/sub" gives Resource = name and Subresource = sub; "name.group"
\* gives Resource = name and APIGroup = group; "name.group/v1" gives
\* Resource = name, APIGroup = group and an empty Subresource, so that the
\* PermissionRequest built from the options asks for the base resource.
C29_ParseResource ==
    (mOut.fn = "ToPermissionRequest") =>
        /\ mOut.ret.Resource = mIn.name
        /\ mOut.ret.APIGroup = mIn.group
        /\ (mIn.group = "") => (mOut.ret.Subresource = mIn.tail)
        /\ (mIn.group # "" /\ mIn.tail \in {"", "v1"}) => (mOut.ret.Subresource = "")

(***************************************************************************)
(* pkg/cmd/cani/cani.go : RbacWhyOptions.Run and the impersonation         *)
(* settings of ConfigFlags.  A setting is a pointer: Nil, or Ptr(v).       *)
(* mIn holds the options Run is called with; mOut holds Run's position,    *)
(* the settings as they are now, the saved pointers, the REST config once  *)
(* built, and the error returned.                                          *)
(***************************************************************************)
Ptr(v) == [val |-> v]

ConfigFlags(impersonate, group, uid) ==
    [Impersonate |-> impersonate, ImpersonateGroup |-> group,
     ImpersonateUID |-> uid]

\* "Temporarily clear impersonation settings", lines 113-117.
ClearedFlags == ConfigFlags(Ptr(""), Ptr(<<>>), Ptr(""))

ImpersonatePool ==
    {Nil, Ptr(""), Ptr("jane"), Ptr("system:serviceaccount:default:sa1"),
     Ptr("system:serviceaccount:default")}
ImpersonateGroupPool == {Nil, Ptr(<<>>), Ptr(<<"devs">>)}
ImpersonateUIDPool == {Nil, Ptr("u1")}
\* Subjects taken from the current context when --as is absent.
ContextSubjects == {"admin", "system:serviceaccount:kube"}

\* Complete, options.go lines 91-95: --as, when given, is the subject.
InitRun ==
    /\ client = [Roles |-> FixtureRoles,
                 ClusterRoles |-> FixtureClusterRoles,
                 RoleBindings |-> <<>>,
                 ClusterRoleBindings |-> <<>>]
    /\ IdleCall
    /\ \E imp \in ImpersonatePool, grp \in ImpersonateGroupPool,
          uid \in ImpersonateUIDPool, risky \in BOOLEAN, ctxAs \in ContextSubjects :
         LET given == imp # Nil /\ imp # Ptr("")
         IN  mIn = [flags |-> ConfigFlags(imp, grp, uid),
                    As |-> IF given THEN imp.val ELSE ctxAs,
                    AsProvided |-> given,
                    ShowRisky |-> risky]
    /\ mOut = NoMatchOut
    /\ last = NoLast
    /\ parked = NoContext

Running(at, flags, saved, restConfig, err) ==
    [fn |-> "Run", pc |-> at, flags |-> flags, saved |-> saved,
     restConfig |-> restConfig, err |-> err]

\* Lines 96-99: the subject is parsed first; on an error Run returns.
RunParseSubject ==
    /\ mOut.fn = ""
    /\ mOut' = IF ParseSubject(mIn.As).err # ""
               THEN Running("returned", mIn.flags, Nil, Nil, "failed to parse subject")
               ELSE Running("clear", mIn.flags, Nil, Nil, "")
    /\ UNCHANGED <<client, callVars, mIn, last, parked>>

\* Lines 107-117: the three pointers are saved, then replaced.
RunClearImpersonation ==
    /\ mOut.fn = "Run" /\ mOut.pc = "clear"
    /\ mOut' = [mOut EXCEPT !.pc = "toRESTConfig", !.saved = mOut.flags,
                            !.flags = ClearedFlags]
    /\ UNCHANGED <<client, callVars, mIn, last, parked>>

\* Lines 119-122: ToRESTConfig reads the settings as they are; when it
\* fails Run returns at once.
RunToRESTConfig ==
    /\ mOut.fn = "Run" /\ mOut.pc = "toRESTConfig"
    /\ \E fault \in BOOLEAN :
         mOut' = IF fault
                 THEN [mOut EXCEPT !.pc = "returned",
                                   !.err = "failed to create REST config"]
                 ELSE [mOut EXCEPT !.pc = "restore", !.restConfig = mOut.flags]
    /\ UNCHANGED <<client, callVars, mIn, last, parked>>

\* Lines 124-127.
RunRestoreImpersonation ==
    /\ mOut.fn = "Run" /\ mOut.pc = "restore"
    /\ mOut' = [mOut EXCEPT !.pc = "newClient", !.flags = mOut.saved]
    /\ UNCHANGED <<client, callVars, mIn, last, parked>>

\* Lines 129-132.
RunNewK8sRBACClient ==
    /\ mOut.fn = "Run" /\ mOut.pc = "newClient"
    /\ \E fault \in BOOLEAN :
         mOut' = IF fault
                 THEN [mOut EXCEPT !.pc = "returned",
                                   !.err = "failed to create RBAC client"]
                 ELSE [mOut EXCEPT !.pc = "resolve"]
    /\ UNCHANGED <<client, callVars, mIn, last, parked>>

\* Lines 134-169: the analysis or the permission check and its printing;
\* neither touches ConfigFlags.
RunResolve ==
    /\ mOut.fn = "Run" /\ mOut.pc = "resolve"
    /\ \E fault \in BOOLEAN :
         mOut' = [mOut EXCEPT !.pc = "returned",
                    !.err = IF ~fault THEN ""
                            ELSE IF mIn.ShowRisky THEN "failed to resolve permissions"
                            ELSE "failed to resolve permission"]
    /\ UNCHANGED <<client, callVars, mIn, last, parked>>

NextRun ==
    \/ RunParseSubject
    \/ RunClearImpersonation
    \/ RunToRESTConfig
    \/ RunRestoreImpersonation
    \/ RunNewK8sRBACClient
    \/ RunResolve

SpecRun == InitRun /\ [][NextRun]_vars

\* C30: the REST config is built while the impersonation settings are
\* cleared, and whenever Run has returned, by whatever path, the three
\* settings hold the values they had before Run was called.
C30_ImpersonationRestored ==
    (mOut.fn = "Run") =>
        /\ (mOut.restConfig # Nil) => (mOut.restConfig = ClearedFlags)
        /\ (mOut.pc = "returned") => (mOut.flags = mIn.flags)

=============================================================================
